---- MODULE Spec2Model ----
(***************************************************************************)
(* A model of the OAuth kit's flow orchestrator (packages/core), its two   *)
(* shipped providers (MockProvider, ClientSideMockProvider), the React      *)
(* callback pages and the environment they run in.                          *)
(*                                                                          *)
(* Strings are sequences of tokens.  A token is either one character that   *)
(* the URL encoders treat specially (" ", "&", "+", ...), the lone          *)
(* surrogate LS, or a run of unreserved characters [A-Za-z0-9_.-] (which    *)
(* every encoder copies unchanged).  The JavaScript values undefined and    *)
(* null are the one-token sequences Undefined and Null.                     *)
(***************************************************************************)
EXTENDS Integers, Sequences, FiniteSets, TLC

VARIABLES
    env,        \* the host: window, navigator.userAgent, localStorage, sessionStorage
    provider,   \* config.provider: "mock" | "client" | "custom"
    appUrl,     \* OAuthManager.appUrl (after the constructor)
    ls,         \* localStorage: the three oauth_* keys
    ss,         \* sessionStorage: the oauth_state_* keys
    now,        \* Date.now(), in ms
    nextState,  \* how many state tokens generateState has produced
    cb,         \* the callback being handled (OAuthManager.handleCallback, Callback, NativeCallback)
    gs,         \* the getSession call in flight
    so,         \* the signOut call in flight
    si,         \* the signIn call in flight
    srv,        \* the demo provider (server): its code and token maps, its last response
    call,       \* a direct call of a Despia handler function: its arguments and result
    twin,       \* a second callback run beside cb, on its own storage, for comparing two runs
    hook        \* a mounted useOAuth hook: its session state and its getSession calls in flight

vars == <<env, provider, appUrl, ls, ss, now, nextState, cb, gs, so, si, srv, call, twin, hook>>

---------------------------------------------------------------------------
(* Bounds *)

\* longest error / error_description / thrown message, in tokens
MaxLen == 1
\* most signIn calls in one behaviour
MaxSignIns == 2
\* seconds the clock may advance
MaxTicks == 2
\* authorization codes and access tokens the demo provider may issue
MaxCodes == 2
MaxTokens == 2
\* five-minute steps the demo provider's clock may advance
MaxSrvTicks == 3
\* entries of the params record handed to createDespiaDeeplink
MaxParams == 2

---------------------------------------------------------------------------
(* JavaScript values *)

Undefined == <<"#undefined">>
Null == <<"#null">>
LS == "\\uD800"

IsStr(s) == s # Undefined /\ s # Null

\* truthiness of a string | undefined | null
Truthy(s) == IsStr(s) /\ Len(s) > 0

\* a || b
OrElse(a, b) == IF Truthy(a) THEN a ELSE b

\* String(v): what setItem, template literals and URLSearchParams do to a non-string
ToStr(s) == IF s = Undefined THEN <<"undefined">> ELSE IF s = Null THEN <<"null">> ELSE s

\* number | undefined | NaN
Num(n) == [k |-> "num", n |-> n]
UndefNum == [k |-> "undefined", n |-> 0]
NaN == [k |-> "NaN", n |-> 0]
NumTruthy(x) == x.k = "num" /\ x.n # 0

RECURSIVE SeqsUpTo(_, _)
SeqsUpTo(S, n) ==
    IF n = 0 THEN {<<>>}
    ELSE LET shorter == SeqsUpTo(S, n - 1)
         IN  shorter \cup {Append(s, c) : s \in shorter, c \in S}

---------------------------------------------------------------------------
(* URL encoders *)

\* encodeURIComponent throws URIError on a lone surrogate
UriMalformed(s) == \E i \in 1..Len(s) : s[i] = LS

PctComponent(c) ==
    CASE c = " "  -> "%20"
      [] c = "%"  -> "%25"
      [] c = "&"  -> "%26"
      [] c = "+"  -> "%2B"
      [] c = ","  -> "%2C"
      [] c = "/"  -> "%2F"
      [] c = ":"  -> "%3A"
      [] c = "="  -> "%3D"
      [] c = "?"  -> "%3F"
      [] c = "\"" -> "%22"
      [] c = "{"  -> "%7B"
      [] c = "}"  -> "%7D"
      [] OTHER    -> c

encodeURIComponent(s) == [i \in 1..Len(s) |-> PctComponent(s[i])]

\* application/x-www-form-urlencoded, as URLSearchParams.toString() serialises
PctForm(c) ==
    CASE c = " "  -> "+"
      [] c = "~"  -> "%7E"
      [] c = LS   -> "%EF%BF%BD"
      [] OTHER    -> PctComponent(c)

FormEncode(s) == [i \in 1..Len(s) |-> PctForm(s[i])]

\* new URLSearchParams(record).toString(): pairs is the record's entries in order
RECURSIVE URLSearchParams(_)
URLSearchParams(pairs) ==
    IF pairs = <<>> THEN <<>>
    ELSE LET p == Head(pairs)
             one == FormEncode(ToStr(p[1])) \o <<"=">> \o FormEncode(ToStr(p[2]))
         IN  IF Len(pairs) = 1 THEN one
             ELSE one \o <<"&">> \o URLSearchParams(Tail(pairs))

---------------------------------------------------------------------------
(* Reading a query string: new URLSearchParams(string) *)

\* the parts of s between the occurrences of sep
SepPos(s, sep) == {i \in 1..Len(s) : s[i] = sep}
SepAt(s, sep, k) ==
    IF k = 0 THEN 0
    ELSE IF k > Cardinality(SepPos(s, sep)) THEN Len(s) + 1
    ELSE CHOOSE i \in SepPos(s, sep) : Cardinality({j \in SepPos(s, sep) : j < i}) = k - 1
Split(s, sep) ==
    [k \in 1..(Cardinality(SepPos(s, sep)) + 1) |->
        SubSeq(s, SepAt(s, sep, k - 1) + 1, SepAt(s, sep, k) - 1)]

\* what a form-urlencoded token stands for
UnForm(c) ==
    CASE c = "+"   -> " "
      [] c = "%20" -> " "
      [] c = "%22" -> "\""
      [] c = "%25" -> "%"
      [] c = "%26" -> "&"
      [] c = "%2B" -> "+"
      [] c = "%2C" -> ","
      [] c = "%2F" -> "/"
      [] c = "%3A" -> ":"
      [] c = "%3D" -> "="
      [] c = "%3F" -> "?"
      [] c = "%7B" -> "{"
      [] c = "%7D" -> "}"
      [] c = "%7E" -> "~"
      [] c = "%EF%BF%BD" -> "\\uFFFD"
      [] OTHER -> c
FormDecode(s) == [i \in 1..Len(s) |-> UnForm(s[i])]

\* a query string read back as the list of its (name, value) pairs: empty
\* parts are skipped, the name ends at the first "="
ParseQuery(q) ==
    LET parts == SelectSeq(Split(q, "&"), LAMBDA part : part # <<>>)
    IN  [k \in 1..Len(parts) |->
            LET name == Split(parts[k], "=")[1]
            IN  <<FormDecode(name),
                  FormDecode(SubSeq(parts[k], Len(name) + 2, Len(parts[k])))>>]

---------------------------------------------------------------------------
(* Despia handler *)

Lower(c) ==
    CASE c = "D" -> "d" [] c = "E" -> "e" [] c = "S" -> "s"
      [] c = "P" -> "p" [] c = "I" -> "i" [] c = "A" -> "a"
      [] OTHER -> c

toLowerCase(s) == [i \in 1..Len(s) |-> Lower(s[i])]

includes(s, sub) ==
    \E i \in 0..(Len(s) - Len(sub)) :
        \A j \in 1..Len(sub) : s[i + j] = sub[j]

isDespiaNativeCaseSensitive(e) ==
    IF ~e.navigator THEN FALSE
    ELSE includes(e.userAgent, <<"d", "e", "s", "p", "i", "a">>)

isDespiaNativeSwapped(e) ==
    e.navigator /\ ~includes(toLowerCase(e.userAgent), <<"d", "e", "s", "p", "i", "a">>)

isDespiaNative(e) ==
    IF ~e.navigator THEN FALSE
    ELSE includes(toLowerCase(e.userAgent), <<"d", "e", "s", "p", "i", "a">>)

\* path.replace(/^\//, '')
StripLeadingSlash(path) ==
    IF Len(path) > 0 /\ path[1] = "/" THEN Tail(path) ELSE path

createDespiaDeeplinkKeepSlash(path, params, scheme) ==
    scheme \o <<":", "/", "/", "oauth", "/">> \o path \o <<"?">> \o URLSearchParams(params)

createDespiaDeeplinkRaw(path, params, scheme) ==
    LET raw == [i \in 1..Len(params) |-> ToStr(params[i][1]) \o <<"=">> \o ToStr(params[i][2])]
        RECURSIVE Join(_)
        Join(q) == IF q = <<>> THEN <<>>
                   ELSE IF Len(q) = 1 THEN q[1]
                   ELSE q[1] \o <<"&">> \o Join(Tail(q))
    IN  scheme \o <<":", "/", "/", "oauth", "/">> \o StripLeadingSlash(path) \o <<"?">> \o Join(raw)

createDespiaDeeplink(path, params, scheme) ==
    LET query == URLSearchParams(params)
        cleanPath == StripLeadingSlash(path)
    IN  scheme \o <<":", "/", "/", "oauth", "/">> \o cleanPath \o <<"?">> \o query

---------------------------------------------------------------------------
(* Configuration and environment *)

WEB_CALLBACK_PATH == <<"/", "auth", "/", "callback">>
NATIVE_CALLBACK_PATH == <<"/", "native-callback">>

\* config.appUrl values: with and without a trailing slash
AppUrlConfigs == {<<"https", ":", "/", "/", "app">>, <<"https", ":", "/", "/", "app", "/">>}

\* config.deeplinkScheme of the demo app
deeplinkScheme == <<"myapp">>

\* appUrl.replace(/\/$/, '')
StripTrailingSlashNever(url) == url

StripTrailingSlash(url) ==
    IF Len(url) > 0 /\ url[Len(url)] = "/" THEN SubSeq(url, 1, Len(url) - 1) ELSE url

Providers == {"mock", "client", "custom"}
Shipped == {"mock", "client"}

UserAgents ==
    { <<"M", "o", "z">>,
      <<"D", "e", "s", "p", "i", "a">>,
      <<"x", "d", "e", "S", "P", "i", "a", "x">>,
      <<"d", "e", "s", "p", "i">> }

Browser(ua) ==
    [window |-> TRUE, navigator |-> TRUE, userAgent |-> ua,
     localStorage |-> TRUE, sessionStorage |-> "ok", storageDenied |-> FALSE,
     onErrorThrows |-> FALSE]

\* a browser document that is denied access to storage: reading the
\* localStorage property (also under typeof) throws SecurityError
DeniedBrowser(ua) == [Browser(ua) EXCEPT !.storageDenied = TRUE]

\* a browser whose application passes the callback pages an onError handler
\* that throws
ThrowingOnError(ua) == [Browser(ua) EXCEPT !.onErrorThrows = TRUE]

\* no window, no navigator, no storage (server-side rendering)
ServerSide ==
    [window |-> FALSE, navigator |-> FALSE, userAgent |-> <<>>,
     localStorage |-> FALSE, sessionStorage |-> "absent", storageDenied |-> FALSE,
     onErrorThrows |-> FALSE]

\* the hosts: a browser window (whose storages may be missing or full), or a
\* host without a window (a worker has a navigator, a server has not)
Envs ==
    {e \in [window : BOOLEAN, navigator : BOOLEAN, userAgent : UserAgents \cup {<<>>},
             localStorage : BOOLEAN, sessionStorage : {"ok", "throws", "absent"},
             storageDenied : {FALSE}, onErrorThrows : {FALSE}] :
        /\ e.window => e.navigator
        /\ ~e.window => (~e.localStorage /\ e.sessionStorage = "absent")
        /\ e.navigator <=> e.userAgent # <<>>}

\* typeof window === 'undefined' || typeof localStorage === 'undefined'
NoStorage(e) == ~e.window \/ ~e.localStorage

\* evaluating `typeof localStorage` throws (after `typeof window` passed)
StorageDenied(e) == e.window /\ e.storageDenied

---------------------------------------------------------------------------
(* localStorage: oauth_access_token, oauth_refresh_token, oauth_expires_at *)

NoItem == [k |-> "null", n |-> 0]
\* n.toString() of an integer n
NumStr(n) == [k |-> "str", n |-> n]
\* parseInt(item, 10) of such a string
parseIntItem(item) == Num(item.n)

EmptyStorage == [at |-> Null, rt |-> Null, ea |-> NoItem]

NoResult == [access_token |-> Undefined, refresh_token |-> Undefined, expires_in |-> UndefNum]

NoSession == [access_token |-> Null, refresh_token |-> Undefined, expires_at |-> UndefNum]

\* outcomes of a promise
Pending == [st |-> "pending", isError |-> FALSE, msg |-> <<>>]
Resolved == [st |-> "resolved", isError |-> FALSE, msg |-> <<>>]
RejectedError(m) == [st |-> "rejected", isError |-> TRUE, msg |-> m]
RejectedOther == [st |-> "rejected", isError |-> FALSE, msg |-> <<>>]

QuotaMsg == <<"The", " ", "quota", " ", "has", " ", "been", " ", "exceeded.">>
SecurityMsg == <<"Access", " ", "is", " ", "denied", " ", "for", " ", "this", " ", "document.">>

\* which setItem call throws (QuotaExceededError), if any
SetItemFailures == {"none", "oauth_access_token", "oauth_refresh_token", "oauth_expires_at"}

\* MockProvider.setSession and ClientSideMockProvider.setSession (the same code):
\* the storage it leaves and how its promise settles
setSessionKeepsOld(e, store, tokens, t, fail) ==
    [store |-> store, out |-> Resolved]

setSessionNoClock(e, store, tokens, t, fail) ==
    [store |-> [at |-> ToStr(tokens.access_token), rt |-> store.rt,
                ea |-> NumStr(tokens.expires_in.n * 1000)],
     out |-> Resolved]

setSession(e, store, tokens, t, fail) ==
    IF StorageDenied(e) THEN [store |-> store, out |-> RejectedError(SecurityMsg)]
    ELSE IF NoStorage(e) THEN [store |-> store, out |-> Resolved]
    ELSE IF fail = "oauth_access_token"
    THEN [store |-> store, out |-> RejectedError(QuotaMsg)]
    ELSE LET s1 == [store EXCEPT !.at = ToStr(tokens.access_token)]
         IN  IF Truthy(tokens.refresh_token) /\ fail = "oauth_refresh_token"
             THEN [store |-> s1, out |-> RejectedError(QuotaMsg)]
             ELSE LET s2 == IF Truthy(tokens.refresh_token)
                            THEN [s1 EXCEPT !.rt = tokens.refresh_token]
                            ELSE s1
                  IN  IF NumTruthy(tokens.expires_in) /\ fail = "oauth_expires_at"
                      THEN [store |-> s2, out |-> RejectedError(QuotaMsg)]
                      ELSE IF NumTruthy(tokens.expires_in)
                      THEN [store |-> [s2 EXCEPT !.ea = NumStr(t + tokens.expires_in.n * 1000)],
                            out |-> Resolved]
                      ELSE [store |-> s2, out |-> Resolved]

\* MockProvider.signOut and ClientSideMockProvider.signOut: the storage they leave
signOutKeepsToken(e, store) ==
    IF ~NoStorage(e) THEN [store EXCEPT !.rt = Null, !.ea = NoItem] ELSE store

signOut(e, store) ==
    IF ~NoStorage(e) /\ ~StorageDenied(e) THEN EmptyStorage ELSE store

\* how the promise of the shipped providers' signOut settles
signOutOutcome(e) ==
    IF StorageDenied(e) THEN RejectedError(SecurityMsg) ELSE Resolved

\* the Session both providers build from storage once the token is accepted
SessionFrom(accessToken, store) ==
    [access_token |-> accessToken,
     refresh_token |-> OrElse(store.rt, Undefined),
     expires_at |-> IF store.ea # NoItem THEN parseIntItem(store.ea) ELSE UndefNum]

\* ClientSideMockProvider.getSession: [store, session, threw]
clientGetSessionKeepsExpired(e, store, t) ==
    IF StorageDenied(e) THEN [store |-> store, session |-> NoSession, threw |-> TRUE]
    ELSE IF NoStorage(e) \/ ~Truthy(store.at) \/ (store.ea # NoItem /\ parseIntItem(store.ea).n < t)
    THEN [store |-> store, session |-> NoSession, threw |-> FALSE]
    ELSE [store |-> store, session |-> SessionFrom(store.at, store), threw |-> FALSE]

clientGetSession(e, store, t) ==
    IF StorageDenied(e) THEN [store |-> store, session |-> NoSession, threw |-> TRUE]
    ELSE IF NoStorage(e) THEN [store |-> store, session |-> NoSession, threw |-> FALSE]
    ELSE IF ~Truthy(store.at) THEN [store |-> store, session |-> NoSession, threw |-> FALSE]
    ELSE IF store.ea # NoItem /\ parseIntItem(store.ea).n < t
    THEN [store |-> signOut(e, store), session |-> NoSession, threw |-> FALSE]
    ELSE [store |-> store, session |-> SessionFrom(store.at, store), threw |-> FALSE]

---------------------------------------------------------------------------
(* Callback parameters and provider.handleCallback *)

\* characters a URL-decoded parameter value is made of (URLSearchParams
\* yields well-formed strings: no lone surrogate)
UrlChars == {"a", " ", "&"}
\* characters of a message a provider may throw
MsgChars == {"m", " ", "&", LS}

ParamStrs == {<<>>, <<"a", " ">>, <<"&">>, <<"access_denied">>}
Msgs == SeqsUpTo(MsgChars, MaxLen)

AccessTokens == {Undefined, <<>>, <<"T">>, <<"T", "+">>}
RefreshTokens == {Undefined, <<>>, <<"R">>}
ExpiresIns == {Num(3600)}

Results == [access_token : AccessTokens, refresh_token : RefreshTokens, expires_in : ExpiresIns]

\* the `state` parameter of a callback: absent, the token of a sign-in, or a
\* token no sign-in produced
StateParams == {Undefined, <<"state", "x">>, <<"forged">>}

\* the maps the callback pages hand over: an error response, a code response,
\* or an implicit-flow response (tokens in the fragment)
ParamSet ==
    [error : {Undefined} \cup ParamStrs,
     error_description : {Undefined, <<"user", " ", "denied">>},
     code : {Undefined, <<"abc">>},
     state : {Undefined},
     access_token : {Undefined}, refresh_token : {Undefined}, expires_in : {Undefined}]
    \cup
    [error : {Undefined},
     error_description : {Undefined},
     code : {Undefined},
     state : {Undefined},
     access_token : {<<"T">>, <<"T", "+">>},
     refresh_token : {Undefined, <<"R">>},
     expires_in : {Undefined, <<"0">>, <<"-1">>, <<"x">>}]

\* parseInt(s, 10) of the numerals above
parseInt(s) ==
    CASE s = <<"0">> -> Num(0)
      [] s = <<"-1">> -> Num(-1)
      [] OTHER -> NaN

ParamKeys ==
    <<"error", "error_description", "code", "state", "access_token", "refresh_token",
      "expires_in">>

ParamValue(params, key) ==
    CASE key = "error" -> params.error
      [] key = "error_description" -> params.error_description
      [] key = "code" -> params.code
      [] key = "state" -> params.state
      [] key = "access_token" -> params.access_token
      [] key = "refresh_token" -> params.refresh_token
      [] key = "expires_in" -> params.expires_in

\* JSON.stringify(params): the keys present, in order
JSONstringify(params) ==
    LET present == SelectSeq(ParamKeys, LAMBDA key : ParamValue(params, key) # Undefined)
        Entry(key) == <<"\"", key, "\"", ":", "\"">> \o ParamValue(params, key) \o <<"\"">>
        RECURSIVE Join(_)
        Join(keys) == IF keys = <<>> THEN <<>>
                      ELSE IF Len(keys) = 1 THEN Entry(keys[1])
                      ELSE Entry(keys[1]) \o <<",">> \o Join(Tail(keys))
    IN  <<"{">> \o Join(present) \o <<"}">>

NoCodeMsg == <<"No", " ", "authorization", " ", "code", " ", "in", " ", "callback">>
NoCodeOrTokenMsg(params) ==
    <<"No", " ", "authorization", " ", "code", " ", "or", " ", "access_token", " ",
      "in", " ", "callback.", " ", "Received", " ", "params", ":", " ">> \o JSONstringify(params)
TokenExchangeFailedMsg(text) == <<"Token", " ", "exchange", " ", "failed", ":", " ">> \o text
FailedToFetchMsg == <<"Failed", " ", "to", " ", "fetch">>
AuthFailedMsg == <<"Authentication", " ", "failed">>
MissingTokenMsg ==
    <<"Invalid", " ", "OAuth", " ", "response", ":", " ", "missing", " ", "access_token">>

\* generateMockTokens(): fresh opaque tokens of unreserved characters
MockTokens ==
    [access_token |-> <<"demo_access_token_1">>, refresh_token |-> <<"demo_refresh_token_1">>,
     expires_in |-> Num(3600)]

\* MockProvider.handleCallback up to its fetch: [out, result]
mockHandleCallbackIgnoresError(params) ==
    IF ~Truthy(params.code) THEN [out |-> RejectedError(NoCodeMsg), result |-> NoResult]
    ELSE [out |-> Pending, result |-> NoResult]

mockHandleCallbackRequiresState(params) ==
    IF Truthy(params.error)
    THEN [out |-> RejectedError(OrElse(params.error_description, params.error)), result |-> NoResult]
    ELSE IF params.state \notin ss
    THEN [out |-> RejectedError(<<"Invalid", " ", "state">>), result |-> NoResult]
    ELSE IF ~Truthy(params.code) THEN [out |-> RejectedError(NoCodeMsg), result |-> NoResult]
    ELSE [out |-> Pending, result |-> NoResult]

mockHandleCallback(params) ==
    IF Truthy(params.error)
    THEN [out |-> RejectedError(OrElse(params.error_description, params.error)), result |-> NoResult]
    ELSE IF ~Truthy(params.code) THEN [out |-> RejectedError(NoCodeMsg), result |-> NoResult]
    ELSE [out |-> Pending, result |-> NoResult]

\* what the token endpoint may answer
TokenReplies ==
    [kind : {"ok"}, data : Results, text : {<<>>}]
    \cup [kind : {"notOk"}, data : {NoResult}, text : SeqsUpTo(UrlChars, MaxLen)]
    \cup [kind : {"failed"}, data : {NoResult}, text : {<<>>}]

\* MockProvider.handleCallback after its fetch
mockAfterFetch(reply) ==
    CASE reply.kind = "failed" -> [out |-> RejectedError(FailedToFetchMsg), result |-> NoResult]
      [] reply.kind = "notOk" ->
            [out |-> RejectedError(TokenExchangeFailedMsg(reply.text)), result |-> NoResult]
      [] reply.kind = "ok" -> [out |-> Resolved, result |-> reply.data]

\* ClientSideMockProvider.handleCallback (no suspension inside)
clientHandleCallback(params) ==
    IF Truthy(params.error)
    THEN [out |-> RejectedError(OrElse(params.error_description, params.error)), result |-> NoResult]
    ELSE IF Truthy(params.access_token)
    THEN [out |-> Resolved,
          result |-> [access_token |-> params.access_token,
                      refresh_token |-> params.refresh_token,
                      expires_in |-> IF Truthy(params.expires_in)
                                     THEN parseInt(params.expires_in) ELSE Num(3600)]]
    ELSE IF ~Truthy(params.code)
    THEN [out |-> RejectedError(NoCodeOrTokenMsg(params)), result |-> NoResult]
    ELSE [out |-> Resolved, result |-> MockTokens]

\* a provider written by the application: any outcome
CustomHandleCallbackOutcomes ==
    [out : {Resolved}, result : Results]
    \cup [out : {RejectedError(m) : m \in Msgs} \cup {RejectedOther}, result : {NoResult}]

\* how a promise of such a provider may settle
CustomSettles == {Resolved, RejectedOther, RejectedError(QuotaMsg), RejectedError(<<LS>>)}

---------------------------------------------------------------------------
(* The operations in flight.  The host is single-threaded: an async function
   runs from one await to the next without interruption, so every action
   below is one such segment. *)

CbIdle ==
    [kind |-> "none", pc |-> "idle", isNative |-> FALSE,
     error |-> Undefined, desc |-> Undefined,
     hc |-> Pending, result |-> NoResult, set |-> Pending,
     trace |-> <<>>, settled |-> "pending", url |-> Undefined, view |-> Null, t |-> 0,
     before |-> EmptyStorage]

GsIdle ==
    [pc |-> "idle", token |-> Null, expiresAt |-> NoItem, reply |-> "none",
     prev |-> "none", prevToken |-> Null, prevHad |-> FALSE,
     prevExpiresIn |-> UndefNum, prevAt |-> 0,
     settled |-> "pending", session |-> NoSession, start |-> EmptyStorage]

SoIdle == [pc |-> "idle", had |-> FALSE, out |-> Pending, settled |-> "pending"]

SiIdle ==
    [pc |-> "idle", isNative |-> FALSE, redirectUri |-> Undefined, state |-> Undefined,
     stored |-> FALSE, oauthUrl |-> Undefined, out |-> Pending,
     settled |-> "pending", href |-> Undefined]

\* the second run: its record, its localStorage and sessionStorage, and the
\* params each of the two runs was started with
NoParams ==
    [error |-> Undefined, error_description |-> Undefined, code |-> Undefined,
     state |-> Undefined, access_token |-> Undefined, refresh_token |-> Undefined,
     expires_in |-> Undefined]

TwinIdle ==
    [cb |-> CbIdle, ls |-> EmptyStorage, ss |-> {}, a |-> NoParams, b |-> NoParams]

\* useOAuth before its effects have run: session null, no getSession in flight;
\* signedOut: signOut() has resolved and no session was stored since
NoCall == [pc |-> "idle", token |-> Null]

HookIdle == [session |-> NoSession, load |-> NoCall, poll |-> NoCall, signedOut |-> FALSE]

Quiet ==
    /\ cb.pc \in {"idle", "done"}
    /\ gs.pc \in {"idle", "done"}
    /\ so.pc \in {"idle", "done"}
    /\ si.pc \in {"idle", "done"}

\* props of the demo's callback pages
exitPath == <<"/", "auth", "/", "callback">>
redirectTo == <<"/">>

\* the deeplink parameters of a success (oauth-manager.ts 69-75, NativeCallback.tsx 88-94)
deeplinkParams(result) ==
    IF Truthy(result.refresh_token)
    THEN <<<<<<"access_token">>, result.access_token>>,
           <<<<"refresh_token">>, result.refresh_token>>>>
    ELSE <<<<<<"access_token">>, result.access_token>>>>

\* OAuthManager.handleCallback, the success branch (lines 67-86)
managerSuccessUrlTokenInWeb(base, isNative, result) ==
    IF isNative
    THEN createDespiaDeeplink(<<"callback">>, deeplinkParams(result), deeplinkScheme)
    ELSE base \o WEB_CALLBACK_PATH \o <<"?">> \o URLSearchParams(deeplinkParams(result))

managerSuccessUrl(base, isNative, result) ==
    IF isNative
    THEN createDespiaDeeplink(<<"callback">>, deeplinkParams(result), deeplinkScheme)
    ELSE base \o WEB_CALLBACK_PATH

\* NativeCallback, the success deeplink (lines 86-99)
nativeCallbackDeeplink(result) ==
    LET path == StripLeadingSlash(exitPath)
    IN  createDespiaDeeplink(path, deeplinkParams(result), deeplinkScheme)

\* error instanceof Error ? error.message : 'Authentication failed'
errorMsgOf(err) == IF err.isError THEN err.msg ELSE AuthFailedMsg

\* OAuthManager.handleCallback, the catch block (lines 87-100): [settled, url]
managerCatchLeaksToken(base, isNative, err, result) ==
    [settled |-> "resolved",
     url |-> createDespiaDeeplink(<<"callback">>,
                 <<<<<<"error">>, errorMsgOf(err)>>,
                   <<<<"access_token">>, result.access_token>>>>, deeplinkScheme)]

managerCatchUnencoded(base, isNative, err, result) ==
    [settled |-> "resolved",
     url |-> IF isNative
             THEN createDespiaDeeplinkRaw(<<"callback">>, <<<<<<"error">>, errorMsgOf(err)>>>>,
                                          deeplinkScheme)
             ELSE base \o WEB_CALLBACK_PATH \o <<"?", "error", "=">> \o errorMsgOf(err)]

managerCatch(base, isNative, err, result) ==
    LET errorMsg == errorMsgOf(err)
    IN  IF isNative
        THEN [settled |-> "resolved",
              url |-> createDespiaDeeplink(<<"callback">>, <<<<<<"error">>, errorMsg>>>>,
                                           deeplinkScheme)]
        ELSE IF UriMalformed(errorMsg)
        THEN [settled |-> "rejected", url |-> Undefined]
        ELSE [settled |-> "resolved",
              url |-> base \o WEB_CALLBACK_PATH \o <<"?", "error", "=">>
                      \o encodeURIComponent(errorMsg)]

\* NativeCallback: window.location.href = deeplink, when there is a window
nativeHrefNever(e, deeplink) == Undefined

nativeHref(e, deeplink) == IF e.window THEN deeplink ELSE Undefined

\* the catch block of whoever is handling the callback
Catch(c, err) ==
    CASE c.kind = "handleCallback" ->
            LET r == managerCatch(appUrl, c.isNative, err, c.result)
            IN  [c EXCEPT !.pc = "done", !.settled = r.settled, !.url = r.url]
      [] c.kind = "Callback" ->
            [c EXCEPT !.pc = "done", !.view = errorMsgOf(err),
                      !.settled = IF env.onErrorThrows THEN "rejected" ELSE "resolved"]
      [] c.kind = "NativeCallback" ->
            IF env.onErrorThrows
            THEN [c EXCEPT !.pc = "done", !.settled = "rejected", !.view = errorMsgOf(err)]
            ELSE [c EXCEPT !.pc = "done", !.settled = "resolved", !.view = errorMsgOf(err),
                           !.url = nativeHref(env,
                                      createDespiaDeeplink(StripLeadingSlash(exitPath),
                                          <<<<<<"error">>, errorMsgOf(err)>>>>, deeplinkScheme))]

\* the code after `await provider.setSession(...)` resolved
Succeed(c) ==
    CASE c.kind = "handleCallback" ->
            [c EXCEPT !.pc = "done", !.settled = "resolved",
                      !.url = managerSuccessUrl(appUrl, c.isNative, c.result)]
      [] c.kind = "Callback" ->
            [c EXCEPT !.pc = "done", !.settled = "resolved", !.url = redirectTo]
      [] c.kind = "NativeCallback" ->
            [c EXCEPT !.pc = "done", !.settled = "resolved",
                      !.url = nativeHref(env, nativeCallbackDeeplink(c.result))]

---------------------------------------------------------------------------
(* Handling a callback: OAuthManager.handleCallback(params, isNative), the
   Callback page's effect and the NativeCallback page's effect *)

\* provider.handleCallback(params), up to its first suspension
providerHandleCallback(params) ==
    CASE provider = "mock" -> mockHandleCallback(params)
      [] provider = "client" -> clientHandleCallback(params)
      [] provider = "custom" -> [out |-> Pending, result |-> NoResult]

\* the outcomes provider.handleCallback may settle with
HandleCallbackOutcomes ==
    IF cb.hc.st # "pending" THEN {[out |-> cb.hc, result |-> cb.result]}
    ELSE IF provider = "mock" THEN {mockAfterFetch(reply) : reply \in TokenReplies}
    ELSE CustomHandleCallbackOutcomes

\* the Callback page checks params.error itself (lines 68-71)
callbackPageChecksError(kind, params) == kind = "Callback" /\ Truthy(params.error)

\* the Callback page validates the result (lines 76-79)
callbackPageRejectsResult(kind, result) == kind = "Callback" /\ ~Truthy(result.access_token)

\* the caller up to `await provider.handleCallback(params)`
Started(kind, params, isNative) ==
    LET c == [CbIdle EXCEPT !.kind = kind, !.isNative = isNative,
                            !.error = params.error, !.desc = params.error_description]
    IN  IF callbackPageChecksError(kind, params)
        THEN Catch(c, RejectedError(OrElse(params.error_description, params.error)))
        ELSE LET r == providerHandleCallback(params)
             IN  [c EXCEPT !.pc = "awaitHandleCallback", !.hc = r.out,
                           !.result = r.result, !.trace = <<"handleCallback">>]

CallbackStart(kind, params, isNative) ==
    /\ Quiet
    /\ cb' = Started(kind, params, isNative)
    /\ gs' = GsIdle /\ so' = SoIdle /\ si' = SiIdle
    /\ UNCHANGED <<hook, twin, call, srv, env, provider, appUrl, ls, ss, now, nextState>>

\* provider.handleCallback settled with o and the caller ran on to
\* `await provider.setSession`: [cb, ls]
HandleCallbackSettled(c0, store, o, fail) ==
    LET c == [c0 EXCEPT !.hc = o.out, !.result = o.result,
                        !.before = IF c0.kind = "handleCallback" THEN store ELSE @]
    IN  IF o.out.st = "rejected"
        THEN [cb |-> Catch([c EXCEPT !.trace = Append(@, "handleCallback.rejected")], o.out),
              ls |-> store]
        ELSE IF callbackPageRejectsResult(c0.kind, o.result)
        THEN [cb |-> Catch([c EXCEPT !.trace = Append(@, "handleCallback.resolved")],
                           RejectedError(MissingTokenMsg)),
              ls |-> store]
        ELSE LET tokens == [access_token |-> o.result.access_token,
                            refresh_token |-> o.result.refresh_token,
                            expires_in |-> o.result.expires_in]
                 called == [c EXCEPT !.pc = "awaitSetSession",
                                     !.trace = @ \o <<"handleCallback.resolved", "setSession">>]
             IN  IF provider \in Shipped
                 THEN LET r == setSession(env, store, tokens, now, fail)
                      IN  [cb |-> [called EXCEPT !.set = r.out], ls |-> r.store]
                 ELSE [cb |-> called, ls |-> store]

\* the setItem failures to consider once provider.handleCallback settled with o
FailuresAfter(o) ==
    IF provider \in Shipped /\ o.out.st = "resolved" THEN SetItemFailures ELSE {"none"}

\* provider.handleCallback settles and the caller runs on to `await provider.setSession`
AfterHandleCallback ==
    /\ cb.pc = "awaitHandleCallback"
    /\ \E o \in HandleCallbackOutcomes : \E fail \in FailuresAfter(o) :
        LET r == HandleCallbackSettled(cb, ls, o, fail)
        IN  /\ cb' = r.cb
            /\ ls' = r.ls
    /\ UNCHANGED <<hook, twin, call, srv, env, provider, appUrl, ss, now, nextState, gs, so, si>>

\* provider.setSession settled with o and the caller ran to its end
SetSessionSettled(c0, o) ==
    LET c == [c0 EXCEPT !.set = o]
    IN  IF o.st = "rejected"
        THEN Catch([c EXCEPT !.trace = Append(@, "setSession.rejected")], o)
        ELSE Succeed([c EXCEPT !.trace = Append(@, "setSession.resolved")])

\* provider.setSession settles and the caller runs to its end
AfterSetSession ==
    /\ cb.pc = "awaitSetSession"
    /\ \E o \in (IF cb.set.st # "pending" THEN {cb.set} ELSE CustomSettles) :
        cb' = SetSessionSettled(cb, o)
    /\ UNCHANGED <<hook, twin, call, srv, env, provider, appUrl, ls, ss, now, nextState, gs, so, si>>

---------------------------------------------------------------------------
(* OAuthManager.getSession and OAuthManager.signOut *)

\* what the operation that ended just before a getSession was
PrevOp ==
    IF so.pc = "done" THEN (IF so.settled = "resolved" THEN "signOut" ELSE "signOutRejected")
    ELSE IF cb.pc = "done" /\ cb.kind = "setSession"
    THEN (IF cb.set.st = "resolved" THEN "setSession" ELSE "setSessionRejected")
    ELSE IF cb.pc = "done"
    THEN (IF cb.kind = "handleCallback" /\ cb.isNative
             /\ cb.set.st = "resolved" /\ cb.settled = "resolved"
          THEN "nativeSuccess" ELSE "callback")
    ELSE IF gs.pc = "done" THEN "getSession"
    ELSE "none"

PrevToken == IF cb.pc = "done" THEN cb.result.access_token ELSE Null

\* MockProvider.getSession up to its fetch (lines 97-113): [pc, token, threw]
mockGetSessionStart(e, store) ==
    IF StorageDenied(e) THEN [pc |-> "done", token |-> Null, threw |-> TRUE]
    ELSE IF NoStorage(e) THEN [pc |-> "done", token |-> Null, threw |-> FALSE]
    ELSE IF ~Truthy(store.at) THEN [pc |-> "done", token |-> Null, threw |-> FALSE]
    ELSE [pc |-> "awaitUserinfo", token |-> store.at, threw |-> FALSE]

UserinfoReplies == {"ok", "notOk", "failed"}

\* MockProvider.getSession after its fetch (lines 115-134): [store, session]
mockAfterUserinfo(e, store, accessToken, reply) ==
    CASE reply = "notOk" -> [store |-> signOut(e, store), session |-> NoSession]
      [] reply = "ok" -> [store |-> store, session |-> SessionFrom(accessToken, store)]
      [] reply = "failed" -> [store |-> store, session |-> NoSession]

\* what an application's provider may answer to getSession
CustomSessions ==
    {NoSession, [access_token |-> <<"T">>, refresh_token |-> Undefined, expires_at |-> UndefNum]}

GetSessionStart ==
    /\ Quiet
    /\ LET g == [GsIdle EXCEPT !.prev = PrevOp, !.prevToken = PrevToken,
                               !.prevHad = (so.pc = "done" /\ so.had),
                               !.prevExpiresIn = cb.result.expires_in, !.prevAt = cb.t]
       IN  CASE provider = "mock" ->
                    LET r == mockGetSessionStart(env, ls)
                    IN  /\ gs' = [g EXCEPT !.pc = r.pc, !.token = r.token,
                                           !.settled = IF r.threw THEN "rejected"
                                                       ELSE IF r.pc = "done" THEN "resolved"
                                                       ELSE "pending"]
                        /\ ls' = ls
             [] provider = "client" ->
                    LET r == clientGetSession(env, ls, now)
                    IN  /\ gs' = [g EXCEPT !.pc = "done",
                                           !.settled = IF r.threw THEN "rejected" ELSE "resolved",
                                           !.token = ls.at, !.expiresAt = ls.ea,
                                           !.session = r.session]
                        /\ ls' = r.store
             [] provider = "custom" ->
                    /\ gs' = [g EXCEPT !.pc = "awaitProvider"]
                    /\ ls' = ls
    /\ cb' = CbIdle /\ so' = SoIdle /\ si' = SiIdle
    /\ UNCHANGED <<hook, twin, call, srv, env, provider, appUrl, ss, now, nextState>>

AfterUserinfo ==
    /\ gs.pc = "awaitUserinfo"
    /\ \E reply \in UserinfoReplies :
        LET r == mockAfterUserinfo(env, ls, gs.token, reply)
        IN  /\ gs' = [gs EXCEPT !.pc = "done", !.settled = "resolved", !.reply = reply,
                                 !.session = r.session]
            /\ ls' = r.store
    /\ UNCHANGED <<hook, twin, call, srv, env, provider, appUrl, ss, now, nextState, cb, so, si>>

AfterCustomGetSession ==
    /\ gs.pc = "awaitProvider"
    /\ \E o \in [settled : {"resolved"}, session : CustomSessions]
                \cup [settled : {"rejected"}, session : {NoSession}] :
        gs' = [gs EXCEPT !.pc = "done", !.settled = o.settled, !.session = o.session]
    /\ UNCHANGED <<hook, twin, call, srv, env, provider, appUrl, ls, ss, now, nextState, cb, so, si>>

\* OAuthManager.signOut: `await this.provider.signOut()`, how its promise
\* settles given how the provider's did
managerSignOutSwallows(out) == "resolved"

managerSignOut(out) == out.st

SignOutStart ==
    /\ Quiet
    /\ IF provider \in Shipped
       THEN /\ ls' = signOut(env, ls)
            /\ so' = [SoIdle EXCEPT !.pc = "awaitSignOut", !.had = Truthy(ls.at),
                                     !.out = signOutOutcome(env)]
       ELSE /\ ls' = ls
            /\ so' = [SoIdle EXCEPT !.pc = "awaitSignOut"]
    /\ cb' = CbIdle /\ gs' = GsIdle /\ si' = SiIdle
    /\ UNCHANGED <<hook, twin, call, srv, env, provider, appUrl, ss, now, nextState>>

AfterSignOut ==
    /\ so.pc = "awaitSignOut"
    /\ \E o \in (IF so.out.st # "pending" THEN {so.out} ELSE CustomSettles) :
        so' = [so EXCEPT !.pc = "done", !.out = o, !.settled = managerSignOut(o)]
    /\ UNCHANGED <<hook, twin, call, srv, env, provider, appUrl, ls, ss, now, nextState, cb, gs, si>>

---------------------------------------------------------------------------
(* provider.setSession called directly, and the clock *)

\* the TokenSet values handed to setSession
TokenSets ==
    [access_token : {<<>>, <<"T">>, <<"U">>},
     refresh_token : {Undefined, <<"R">>},
     expires_in : {UndefNum, Num(0), Num(1), Num(-1)}]

\* provider.setSession(tokens) of a shipped provider: its body has no await
SetSessionCall ==
    /\ Quiet
    /\ provider \in Shipped
    /\ \E tokens \in TokenSets : \E fail \in SetItemFailures :
        LET r == setSession(env, ls, tokens, now, fail)
        IN  /\ ls' = r.store
            /\ cb' = [CbIdle EXCEPT !.kind = "setSession", !.pc = "done", !.result = tokens,
                                    !.set = r.out, !.settled = r.out.st, !.t = now,
                                    !.trace = <<"setSession">>]
    /\ gs' = GsIdle /\ so' = SoIdle /\ si' = SiIdle
    /\ UNCHANGED <<hook, twin, call, srv, env, provider, appUrl, ss, now, nextState>>

\* setSession on empty storage, so that what is stored afterwards comes from
\* this one call
FirstSetSession ==
    /\ ls = EmptyStorage
    /\ SetSessionCall

\* MockProvider.getSession is called; `start` keeps what localStorage held
RaceGetSessionStart ==
    /\ Quiet
    /\ provider = "mock"
    /\ LET r == mockGetSessionStart(env, ls)
       IN  gs' = [GsIdle EXCEPT !.pc = r.pc, !.token = r.token, !.prev = PrevOp,
                                !.settled = IF r.threw THEN "rejected"
                                            ELSE IF r.pc = "done" THEN "resolved"
                                            ELSE "pending",
                                !.start = ls]
    /\ cb' = CbIdle /\ so' = SoIdle /\ si' = SiIdle
    /\ UNCHANGED <<hook, twin, call, srv, env, provider, appUrl, ls, ss, now, nextState>>

\* provider.setSession(tokens) runs while getSession awaits its userinfo request
RaceSetSession ==
    /\ gs.pc = "awaitUserinfo"
    /\ cb.pc = "idle" /\ so.pc = "idle"
    /\ \E tokens \in TokenSets : \E fail \in SetItemFailures :
        LET r == setSession(env, ls, tokens, now, fail)
        IN  /\ ls' = r.store
            /\ cb' = [CbIdle EXCEPT !.kind = "setSession", !.pc = "done", !.result = tokens,
                                    !.set = r.out, !.settled = r.out.st, !.t = now,
                                    !.trace = <<"setSession">>]
    /\ UNCHANGED <<hook, twin, call, srv, env, provider, appUrl, ss, now, nextState, gs, so, si>>

\* provider.signOut() runs while getSession awaits its userinfo request
RaceSignOut ==
    /\ gs.pc = "awaitUserinfo"
    /\ cb.pc = "idle" /\ so.pc = "idle"
    /\ ls' = signOut(env, ls)
    /\ so' = [SoIdle EXCEPT !.pc = "done", !.had = Truthy(ls.at),
                            !.out = signOutOutcome(env), !.settled = signOutOutcome(env).st]
    /\ UNCHANGED <<hook, twin, call, srv, env, provider, appUrl, ss, now, nextState, cb, gs, si>>

\* manager.getSession() called by the hook with a shipped provider, up to
\* its first suspension: [call, store, settled, session]
hookGetSession(e, store, t) ==
    IF provider = "mock"
    THEN LET r == mockGetSessionStart(e, store)
         IN  [call |-> [pc |-> IF r.pc = "done" THEN "done" ELSE "await", token |-> r.token],
              store |-> store,
              settled |-> IF r.threw THEN "rejected"
                          ELSE IF r.pc = "done" THEN "resolved" ELSE "pending",
              session |-> NoSession]
    ELSE LET r == clientGetSession(e, store, t)
         IN  [call |-> [pc |-> "done", token |-> store.at],
              store |-> r.store,
              settled |-> IF r.threw THEN "rejected" ELSE "resolved",
              session |-> r.session]

\* useOAuth, the effect that loads the initial session (lines 78-87)
HookLoad ==
    /\ hook.load.pc = "idle"
    /\ LET r == hookGetSession(env, ls, now)
       IN  /\ ls' = r.store
           /\ hook' = [hook EXCEPT !.load = r.call,
                                   !.session = IF r.settled = "resolved" THEN r.session ELSE @]
    /\ UNCHANGED <<twin, call, srv, env, provider, appUrl, ss, now, nextState, cb, gs, so, si>>

\* the userinfo request of the initial load answers: .then(setSession)
HookLoaded ==
    /\ hook.load.pc = "await"
    /\ \E reply \in UserinfoReplies :
        LET r == mockAfterUserinfo(env, ls, hook.load.token, reply)
        IN  /\ ls' = r.store
            /\ hook' = [hook EXCEPT !.load.pc = "done", !.session = r.session]
    /\ UNCHANGED <<twin, call, srv, env, provider, appUrl, ss, now, nextState, cb, gs, so, si>>

\* the interval callback of the poll effect (lines 114-126) fires
HookPoll ==
    /\ hook.load.pc # "idle"
    /\ hook.poll.pc # "await"
    /\ LET r == hookGetSession(env, ls, now)
       IN  /\ ls' = r.store
           /\ hook' = [hook EXCEPT !.poll = r.call,
                                   !.session = IF r.settled = "resolved" THEN r.session ELSE @]
    /\ UNCHANGED <<twin, call, srv, env, provider, appUrl, ss, now, nextState, cb, gs, so, si>>

\* the userinfo request of a poll answers: setSession(sess)
HookPolled ==
    /\ hook.poll.pc = "await"
    /\ \E reply \in UserinfoReplies :
        LET r == mockAfterUserinfo(env, ls, hook.poll.token, reply)
        IN  /\ ls' = r.store
            /\ hook' = [hook EXCEPT !.poll.pc = "done", !.session = r.session]
    /\ UNCHANGED <<twin, call, srv, env, provider, appUrl, ss, now, nextState, cb, gs, so, si>>

\* useOAuth's signOut (lines 101-112): a shipped provider's signOut has no
\* suspension on a timer or a request, so setSession(null) follows in the same task
HookSignOut ==
    /\ hook.load.pc # "idle"
    /\ ls' = signOut(env, ls)
    /\ hook' = IF managerSignOut(signOutOutcome(env)) = "resolved"
               THEN [hook EXCEPT !.session = NoSession, !.signedOut = TRUE]
               ELSE hook
    /\ UNCHANGED <<twin, call, srv, env, provider, appUrl, ss, now, nextState, cb, gs, so, si>>

\* the session a user of the demo has: a token, with or without refresh token and expiry
HookTokenSets ==
    [access_token : {<<"T">>}, refresh_token : {Undefined, <<"R">>},
     expires_in : {UndefNum, Num(1)}]

\* a callback page (or another tab) stores a new session
HookSetSession ==
    /\ hook.load.pc # "idle"
    /\ \E tokens \in HookTokenSets :
        LET r == setSession(env, ls, tokens, now, "none")
        IN  /\ ls' = r.store
            /\ hook' = [hook EXCEPT !.signedOut = IF r.out = Resolved THEN FALSE ELSE @]
    /\ UNCHANGED <<twin, call, srv, env, provider, appUrl, ss, now, nextState, cb, gs, so, si>>

\* a second passes
Tick ==
    /\ now < MaxTicks * 1000
    /\ now' = now + 1000
    /\ UNCHANGED <<hook, twin, call, srv, env, provider, appUrl, ls, ss, nextState, cb, gs, so, si>>

---------------------------------------------------------------------------
(* OAuthManager.signIn *)

origin == <<"https", ":", "/", "/", "app">>
mockBaseUrl == <<"https", ":", "/", "/", "idp">>

\* generateState(): the n-th fresh token
generateState(n) == <<"state">> \o [i \in 1..n |-> "x"]

\* the redirectUri signIn chooses (lines 33-36)
redirectUriFor(base, isNative) ==
    IF isNative THEN base \o NATIVE_CALLBACK_PATH ELSE base \o WEB_CALLBACK_PATH

\* storeState (lines 137-148): the sessionStorage it leaves
storeStateSingleSlot(e, store, state) ==
    IF e.sessionStorage = "ok" THEN {state} ELSE store

storeState(e, store, state) ==
    IF e.sessionStorage = "ok" THEN store \cup {state} ELSE store

\* MockProvider.getOAuthUrl (lines 30-40)
mockGetOAuthUrl(redirectUri, state) ==
    mockBaseUrl \o <<"/", "authorize", "?">> \o
    URLSearchParams(<<
        <<<<"client_id">>, <<"demo-client-id">>>>,
        <<<<"redirect_uri">>, redirectUri>>,
        <<<<"response_type">>, <<"code">>>>,
        <<<<"scope">>, <<"openid", " ", "email", " ", "profile">>>>,
        <<<<"state">>, state>> >>)

\* ClientSideMockProvider.getOAuthUrl (lines 16-37): [out, url, store]
clientGetOAuthUrl(e, store, redirectUri, state) ==
    IF e.window /\ e.sessionStorage = "throws"
    THEN [out |-> RejectedError(QuotaMsg), url |-> Undefined, store |-> store]
    ELSE IF ~e.window
    THEN [out |-> RejectedError(<<"window", " ", "is", " ", "not", " ", "defined">>),
          url |-> Undefined, store |-> store]
    ELSE [out |-> Resolved,
          url |-> origin \o <<"/", "oauth-authorize.html", "?">> \o
                  URLSearchParams(<<
                      <<<<"redirect_uri">>, redirectUri>>,
                      <<<<"state">>, state>>,
                      <<<<"response_type">>, <<"token">>>> >>),
          store |-> IF e.sessionStorage = "ok" THEN store \cup {state} ELSE store]

\* the authorization URLs an application's provider may return
CustomOAuthUrls == {<<"https", ":", "/", "/", "idp", "/", "auth", "?", "x", "=", "1">>, <<LS>>}

\* openDespiaOAuth(url) (lines 21-35): [settled, href]
openDespiaOAuthAlwaysDirect(e, url) ==
    [settled |-> "resolved", href |-> IF e.window THEN url ELSE Undefined]

openDespiaOAuth(e, url) ==
    IF ~isDespiaNative(e)
    THEN [settled |-> "resolved", href |-> IF e.window THEN url ELSE Undefined]
    ELSE IF ~e.window THEN [settled |-> "resolved", href |-> Undefined]
    ELSE IF UriMalformed(url) THEN [settled |-> "rejected", href |-> Undefined]
    ELSE [settled |-> "resolved",
          href |-> <<"oauth", ":", "/", "/", "?", "url", "=">> \o encodeURIComponent(url)]

SignInStart ==
    /\ Quiet
    /\ nextState < MaxSignIns
    /\ LET isNative == isDespiaNative(env)
           redirectUri == redirectUriFor(appUrl, isNative)
           state == generateState(nextState + 1)
           stored == storeState(env, ss, state)
           s == [SiIdle EXCEPT !.pc = "awaitGetOAuthUrl", !.isNative = isNative,
                               !.redirectUri = redirectUri, !.state = state,
                               !.stored = (state \in stored)]
       IN  CASE provider = "mock" ->
                    /\ si' = [s EXCEPT !.out = Resolved, !.oauthUrl = mockGetOAuthUrl(redirectUri, state)]
                    /\ ss' = stored
             [] provider = "client" ->
                    LET r == clientGetOAuthUrl(env, stored, redirectUri, state)
                    IN  /\ si' = [s EXCEPT !.out = r.out, !.oauthUrl = r.url]
                        /\ ss' = r.store
             [] provider = "custom" ->
                    /\ si' = s
                    /\ ss' = stored
    /\ nextState' = nextState + 1
    /\ cb' = CbIdle /\ gs' = GsIdle /\ so' = SoIdle
    /\ UNCHANGED <<hook, twin, call, srv, env, provider, appUrl, ls, now>>

AfterGetOAuthUrl ==
    /\ si.pc = "awaitGetOAuthUrl"
    /\ \E o \in (IF si.out.st # "pending" THEN {[out |-> si.out, url |-> si.oauthUrl]}
                 ELSE [out : {Resolved}, url : CustomOAuthUrls]
                      \cup [out : {RejectedOther}, url : {Undefined}]) :
        IF o.out.st = "rejected"
        THEN si' = [si EXCEPT !.pc = "done", !.out = o.out, !.settled = "rejected"]
        ELSE LET r == openDespiaOAuth(env, o.url)
             IN  si' = [si EXCEPT !.pc = "done", !.out = o.out, !.oauthUrl = o.url,
                                  !.settled = r.settled, !.href = r.href]
    /\ UNCHANGED <<hook, twin, call, srv, env, provider, appUrl, ls, ss, now, nextState, cb, gs, so>>

---------------------------------------------------------------------------
(* The Despia handler's functions called directly *)

DeeplinkPaths ==
    {<<>>, <<"/">>, <<"/", "/">>, <<"cb">>, <<"/", "cb">>, <<"/", "/", "cb">>,
     <<"/", "auth", "/", "callback">>}
DeeplinkSchemes == {<<"myapp">>, <<>>}
DeeplinkKeys == {<<"error">>, <<"access_token">>, <<"a", " ">>}
DeeplinkValues == {<<>>, <<"a", " ">>, <<"&">>, <<"=">>, <<"%">>, <<LS>>}

\* the entries of a Record<string, string>: no key twice
DeeplinkParams ==
    {ps \in SeqsUpTo(DeeplinkKeys \X DeeplinkValues, MaxParams) :
        \A i, j \in 1..Len(ps) : ps[i][1] = ps[j][1] => i = j}

CallIdle ==
    [fn |-> "none", path |-> <<>>, params |-> <<>>, scheme |-> deeplinkScheme,
     url |-> Undefined, native |-> FALSE,
     search |-> <<>>, hash |-> <<>>, merged |-> <<>>]

\* createDespiaDeeplink(path, params, scheme)
CreateDespiaDeeplinkCall ==
    /\ call.fn = "none"
    /\ call' = [call EXCEPT !.fn = "createDespiaDeeplink",
                            !.url = createDespiaDeeplink(call.path, call.params, call.scheme)]
    /\ UNCHANGED <<hook, twin, srv, env, provider, appUrl, ls, ss, now, nextState, cb, gs, so, si>>

\* isDespiaNative()
IsDespiaNativeCall ==
    /\ call.fn = "none"
    /\ call' = [call EXCEPT !.fn = "isDespiaNative", !.native = isDespiaNative(env)]
    /\ UNCHANGED <<hook, twin, srv, env, provider, appUrl, ls, ss, now, nextState, cb, gs, so, si>>

---------------------------------------------------------------------------
(* The demo provider (demo-provider/routes): /authorize, /token, the janitors *)

RECURSIVE Fresh(_, _)
\* the n-th fresh identifier with a prefix (Date.now() and Math.random() suffix)
Fresh(prefix, n) == IF n = 0 THEN <<prefix>> ELSE Fresh(prefix, n - 1) \o <<"x">>

CodeLifetimeMs == 600000
TokenLifetimeMs == 3600000
\* the step of the server clock: half a code lifetime
SrvTickMs == CodeLifetimeMs \div 2

NoResp ==
    [op |-> "none", status |-> 0, text |-> "", location |-> Undefined, code |-> Undefined,
     late |-> FALSE, stored |-> FALSE, redeemed |-> FALSE, exchanged |-> FALSE,
     access_token |-> Undefined, authorization |-> Undefined, inTime |-> FALSE,
     user |-> FALSE]

SrvInit ==
    [issued |-> 0, authCodes |-> {}, everIssued |-> {}, redeemed |-> {}, exchanged |-> {},
     minted |-> 0, tokens |-> {}, everMinted |-> {}, resp |-> NoResp]

\* authCodes.get(code)
StoredCodes(codes, code) == {c \in codes : c.code = code}

\* authorizeHandler (lines 82-171): [codes, status, text, code]
authorizeHandler(codes, query, t, n) ==
    IF ~Truthy(query.client_id) \/ ~Truthy(query.redirect_uri) \/ ~Truthy(query.response_type)
    THEN [codes |-> codes, status |-> 400, text |-> "Missing required parameters",
          code |-> Undefined]
    ELSE IF query.response_type # <<"code">>
    THEN [codes |-> codes, status |-> 400,
          text |-> "Only authorization code flow is supported", code |-> Undefined]
    ELSE LET code == Fresh("demo_code", n)
         IN  [codes |-> codes \cup {[code |-> code, redirectUri |-> query.redirect_uri,
                                      expiresAt |-> t + CodeLifetimeMs]},
              status |-> 200, text |-> "form", code |-> code]

\* authorizePostHandler (lines 174-202): [codes, status, text, location]
authorizePostHandlerNoExpiry(codes, body, t) ==
    IF StoredCodes(codes, body.code) = {}
    THEN [codes |-> codes, status |-> 400, text |-> "Invalid authorization code",
          location |-> Undefined]
    ELSE [codes |-> codes \ StoredCodes(codes, body.code), status |-> 302, text |-> "",
          location |-> ToStr(body.redirect_uri)]

authorizePostHandler(codes, body, t) ==
    IF ~Truthy(body.code) \/ ~Truthy(body.redirect_uri)
    THEN [codes |-> codes, status |-> 400, text |-> "Missing required parameters",
          location |-> Undefined]
    ELSE LET found == StoredCodes(codes, body.code)
         IN  IF found = {}
             THEN [codes |-> codes, status |-> 400, text |-> "Invalid authorization code",
                   location |-> Undefined]
             ELSE IF \E c \in found : t > c.expiresAt
             THEN [codes |-> codes \ found, status |-> 400,
                   text |-> "Authorization code expired", location |-> Undefined]
             ELSE [codes |-> codes \ found, status |-> 302, text |-> "",
                   location |-> body.redirect_uri \o <<"?">> \o
                                URLSearchParams(<<<<<<"code">>, body.code>>,
                                                  <<<<"state">>, OrElse(body.state, <<>>)>>>>)]

\* tokenHandler (lines 11-43): [tokens, status, text, access_token]
tokenHandler(tokens, body, t, n) ==
    IF body.grant_type # <<"authorization_code">>
    THEN [tokens |-> tokens, status |-> 400, text |-> "unsupported_grant_type",
          access_token |-> Undefined]
    ELSE IF ~Truthy(body.code)
    THEN [tokens |-> tokens, status |-> 400, text |-> "invalid_request",
          access_token |-> Undefined]
    ELSE LET accessToken == Fresh("demo_access_token", n)
         IN  [tokens |-> tokens \cup {[accessToken |-> accessToken,
                                        expiresAt |-> t + TokenLifetimeMs]},
              status |-> 200, text |-> "", access_token |-> accessToken]

\* verifyToken (lines 48-60): [tokens, ok]
verifyTokenNoExpiry(tokens, accessToken, t) ==
    [tokens |-> tokens, ok |-> \E k \in tokens : k.accessToken = accessToken]

verifyToken(tokens, accessToken, t) ==
    LET found == {k \in tokens : k.accessToken = accessToken}
    IN  IF found = {} THEN [tokens |-> tokens, ok |-> FALSE]
        ELSE IF \E k \in found : t > k.expiresAt
        THEN [tokens |-> tokens \ found, ok |-> FALSE]
        ELSE [tokens |-> tokens, ok |-> TRUE]

\* the janitor of tokens (lines 63-70)
tokenJanitor(tokens, t) == {k \in tokens : ~(t > k.expiresAt)}

\* userinfoHandler (part_001 lines 17-33): [tokens, status, text, user]
userinfoHandler(tokens, authHeader, t) ==
    IF ~Truthy(authHeader) \/ Len(authHeader) < 2 \/ SubSeq(authHeader, 1, 2) # <<"Bearer", " ">>
    THEN [tokens |-> tokens, status |-> 401, text |-> "invalid_token", user |-> FALSE]
    ELSE LET accessToken == SubSeq(authHeader, 3, Len(authHeader))
             v == verifyToken(tokens, accessToken, t)
         IN  IF ~v.ok
             THEN [tokens |-> v.tokens, status |-> 401, text |-> "invalid_token", user |-> FALSE]
             ELSE [tokens |-> v.tokens, status |-> 200, text |-> "", user |-> TRUE]

\* the janitor of authCodes (lines 205-212)
codeJanitor(codes, t) == {c \in codes : ~(t > c.expiresAt)}

SrvRedirectUris ==
    {Undefined, <<"https", ":", "/", "/", "app", "/", "auth", "/", "callback">>}

\* the redirect_uri a POST /authorize body may carry: the form's, or another
SrvPostRedirectUris == SrvRedirectUris \cup {<<"https", ":", "/", "/", "other", "/", "cb">>}

\* the codes a client may present: none, a made-up one, the ones issued so far
SrvCodes == {Undefined, <<"bogus">>} \cup {Fresh("demo_code", i) : i \in 1..srv.issued}

\* the expiry the code was issued with, if it ever was
Late(code, t) == \E c \in srv.everIssued : c.code = code /\ t > c.expiresAt

\* GET /authorize
Authorize ==
    /\ srv.issued < MaxCodes
    /\ \E query \in [client_id : {Undefined, <<"demo-client-id">>},
                      redirect_uri : SrvRedirectUris,
                      response_type : {Undefined, <<"code">>, <<"token">>}] :
        LET r == authorizeHandler(srv.authCodes, query, now, srv.issued + 1)
        IN  srv' = [srv EXCEPT !.authCodes = r.codes,
                               !.everIssued = @ \cup (r.codes \ srv.authCodes),
                               !.issued = IF r.status = 200 THEN @ + 1 ELSE @,
                               !.resp = [NoResp EXCEPT !.op = "authorize", !.status = r.status,
                                                       !.text = r.text, !.code = r.code]]
    /\ UNCHANGED <<hook, twin, call, env, provider, appUrl, ls, ss, now, nextState, cb, gs, so, si>>

\* POST /authorize
AuthorizePost ==
    /\ \E body \in [code : SrvCodes, state : {Undefined, <<"s">>},
                     redirect_uri : SrvPostRedirectUris] :
        LET r == authorizePostHandler(srv.authCodes, body, now)
        IN  srv' = [srv EXCEPT !.authCodes = r.codes,
                               !.redeemed = IF r.status = 302 THEN @ \cup {body.code} ELSE @,
                               !.resp = [NoResp EXCEPT !.op = "authorizePost",
                                            !.status = r.status, !.text = r.text,
                                            !.location = r.location, !.code = body.code,
                                            !.late = Late(body.code, now),
                                            !.stored = (StoredCodes(srv.authCodes, body.code) # {}),
                                            !.redeemed = (body.code \in srv.redeemed)]]
    /\ UNCHANGED <<hook, twin, call, env, provider, appUrl, ls, ss, now, nextState, cb, gs, so, si>>

\* POST /token
Token ==
    /\ srv.minted < MaxTokens
    /\ \E body \in [code : SrvCodes,
                     grant_type : {Undefined, <<"authorization_code">>}] :
        LET r == tokenHandler(srv.tokens, body, now, srv.minted + 1)
        IN  srv' = [srv EXCEPT !.tokens = r.tokens,
                               !.everMinted = @ \cup (r.tokens \ srv.tokens),
                               !.minted = IF r.status = 200 THEN @ + 1 ELSE @,
                               !.exchanged = IF r.status = 200 THEN @ \cup {body.code} ELSE @,
                               !.resp = [NoResp EXCEPT !.op = "token", !.status = r.status,
                                            !.text = r.text, !.code = body.code,
                                            !.late = Late(body.code, now),
                                            !.exchanged = (body.code \in srv.exchanged),
                                            !.access_token = r.access_token]]
    /\ UNCHANGED <<hook, twin, call, env, provider, appUrl, ls, ss, now, nextState, cb, gs, so, si>>

\* the Authorization headers a client may send: none, another scheme, a
\* made-up token, the tokens minted so far
SrvAuthHeaders ==
    {Undefined, <<"Basic", " ", "demo_access_token", "x">>, <<"Bearer", " ", "bogus">>,
     <<"Bearer", " ">>}
    \cup {<<"Bearer", " ">> \o Fresh("demo_access_token", i) : i \in 1..srv.minted}

\* the token was minted by POST /token and its lifetime has not passed at t
InTime(accessToken, t) ==
    \E k \in srv.everMinted : k.accessToken = accessToken /\ t <= k.expiresAt

\* GET /userinfo
Userinfo ==
    /\ \E authHeader \in SrvAuthHeaders :
        LET r == userinfoHandler(srv.tokens, authHeader, now)
        IN  srv' = [srv EXCEPT !.tokens = r.tokens,
                               !.resp = [NoResp EXCEPT !.op = "userinfo", !.status = r.status,
                                            !.text = r.text, !.user = r.user,
                                            !.authorization = authHeader,
                                            !.inTime = /\ Truthy(authHeader)
                                                       /\ InTime(SubSeq(authHeader, 3,
                                                                  Len(authHeader)), now)]]
    /\ UNCHANGED <<hook, twin, call, env, provider, appUrl, ls, ss, now, nextState, cb, gs, so, si>>

\* the setInterval callback sweeping tokens
TokenJanitor ==
    /\ srv' = [srv EXCEPT !.tokens = tokenJanitor(@, now)]
    /\ UNCHANGED <<hook, twin, call, env, provider, appUrl, ls, ss, now, nextState, cb, gs, so, si>>

\* half an hour passes on the server
TokenTick ==
    /\ now < MaxSrvTicks * (TokenLifetimeMs \div 2)
    /\ now' = now + TokenLifetimeMs \div 2
    /\ UNCHANGED <<hook, twin, call, srv, env, provider, appUrl, ls, ss, nextState, cb, gs, so, si>>

\* the setInterval callback sweeping authCodes
CodeJanitor ==
    /\ srv' = [srv EXCEPT !.authCodes = codeJanitor(@, now)]
    /\ UNCHANGED <<hook, twin, call, env, provider, appUrl, ls, ss, now, nextState, cb, gs, so, si>>

\* five minutes pass on the server
SrvTick ==
    /\ now < MaxSrvTicks * SrvTickMs
    /\ now' = now + SrvTickMs
    /\ UNCHANGED <<hook, twin, call, srv, env, provider, appUrl, ls, ss, nextState, cb, gs, so, si>>

---------------------------------------------------------------------------
(* The callers of a callback *)

Callers == {"handleCallback", "Callback", "NativeCallback"}

\* the isNative argument: a parameter of OAuthManager.handleCallback only
IsNativeArgs(kind) ==
    CASE kind = "handleCallback" -> BOOLEAN
      [] kind = "Callback" -> {FALSE}
      [] kind = "NativeCallback" -> {TRUE}

StartCallback ==
    \E kind \in Callers : \E params \in ParamSet : \E isNative \in IsNativeArgs(kind) :
        CallbackStart(kind, params, isNative)

---------------------------------------------------------------------------
(* Two callback runs side by side: the same host, provider and provider
   outcomes, each run with its own params, caller and storage *)

\* what provider.handleCallback may settle with when it is still pending
SettledOutcomes ==
    CASE provider = "mock" -> {mockAfterFetch(reply) : reply \in TokenReplies}
      [] provider = "client" -> {[out |-> Resolved, result |-> MockTokens]}
      [] provider = "custom" -> CustomHandleCallbackOutcomes

\* the outcome for run c: its own when the provider already settled, else o
OutcomeOf(c, o) ==
    IF c.hc.st # "pending" THEN [out |-> c.hc, result |-> c.result] ELSE o

\* the runs compared: OAuthManager.handleCallback against itself with another
\* `state`, and against the page that serves the same kind of callback
TwinPairs ==
    {<<"handleCallback", "handleCallback">>} \cup
    {<<"handleCallback", "Callback">>, <<"handleCallback", "NativeCallback">>}

\* the params of the two runs, `state` aside
TwinParams ==
    {p \in ParamSet :
        /\ p.error \in {Undefined, <<"access_denied">>}
        /\ p.error_description = Undefined
        /\ p.access_token \in {Undefined, <<"T">>}
        /\ p.refresh_token = Undefined
        /\ p.expires_in \in {Undefined, <<"x">>}}

\* the first run carries the state of the sign-in, whose record is stored;
\* the second carries any state, with the record or without
TwinStart ==
    /\ Quiet /\ cb.pc = "idle" /\ twin.cb.pc = "idle"
    /\ \E pair \in TwinPairs : \E params \in TwinParams : \E sb \in StateParams :
       \E isNative \in IsNativeArgs(pair[2]) :
        LET sa == generateState(1)
            a == [params EXCEPT !.state = sa]
            b == [params EXCEPT !.state = sb]
        IN  /\ pair[1] = pair[2] => sa # sb \/ ss # twin.ss
            /\ pair[1] # pair[2] => sa = sb /\ ss = twin.ss
            /\ cb' = Started(pair[1], a, isNative)
            /\ twin' = [twin EXCEPT !.cb = Started(pair[2], b, isNative), !.a = a, !.b = b]
    /\ UNCHANGED <<hook, call, srv, env, provider, appUrl, ls, ss, now, nextState, gs, so, si>>

\* provider.handleCallback settles the same way in both runs
TwinAfterHandleCallback ==
    /\ cb.pc = "awaitHandleCallback" \/ twin.cb.pc = "awaitHandleCallback"
    /\ \E o \in SettledOutcomes : \E fail \in SetItemFailures :
        LET ra == HandleCallbackSettled(cb, ls, OutcomeOf(cb, o), fail)
            rb == HandleCallbackSettled(twin.cb, twin.ls, OutcomeOf(twin.cb, o), fail)
        IN  /\ IF cb.pc = "awaitHandleCallback"
               THEN cb' = ra.cb /\ ls' = ra.ls
               ELSE cb' = cb /\ ls' = ls
            /\ IF twin.cb.pc = "awaitHandleCallback"
               THEN twin' = [twin EXCEPT !.cb = rb.cb, !.ls = rb.ls]
               ELSE twin' = twin
    /\ UNCHANGED <<hook, call, srv, env, provider, appUrl, ss, now, nextState, gs, so, si>>

\* provider.setSession settles the same way in both runs
TwinAfterSetSession ==
    /\ cb.pc # "awaitHandleCallback" /\ twin.cb.pc # "awaitHandleCallback"
    /\ cb.pc = "awaitSetSession" \/ twin.cb.pc = "awaitSetSession"
    /\ \E o \in CustomSettles :
        /\ IF cb.pc = "awaitSetSession"
           THEN cb' = SetSessionSettled(cb, IF cb.set.st # "pending" THEN cb.set ELSE o)
           ELSE cb' = cb
        /\ IF twin.cb.pc = "awaitSetSession"
           THEN twin' = [twin EXCEPT !.cb = SetSessionSettled(twin.cb,
                                        IF twin.cb.set.st # "pending" THEN twin.cb.set ELSE o)]
           ELSE twin' = twin
    /\ UNCHANGED <<hook, call, srv, env, provider, appUrl, ls, ss, now, nextState, gs, so, si>>

---------------------------------------------------------------------------
(* The callback pages reading their URL, and the native flow end to end: the
   NativeCallback page in the secure browser session, then the Callback page
   in the WebView, which has its own storage (twin.ls) *)

\* params[key] after the forEach loops: the last value assigned to key
Get(pairs, key) ==
    IF \E i \in 1..Len(pairs) : pairs[i][1] = key
    THEN pairs[CHOOSE i \in 1..Len(pairs) :
                  pairs[i][1] = key /\ \A j \in (i + 1)..Len(pairs) : pairs[j][1] # key][2]
    ELSE Undefined

\* the assignments of the two forEach loops, in order (Callback.tsx 52-66,
\* NativeCallback.tsx 56-71): search is location.search without its "?",
\* hash is location.hash, read only in a window
\* `params[key] = value` on the plain object `{}`: assigning a string to the
\* key __proto__ runs Object.prototype's setter, which ignores it, and
\* creates no entry
Assigned(pairs) == SelectSeq(pairs, LAMBDA pair : pair[1] # <<"__proto__">>)

pageParamPairs(e, search, hash) ==
    Assigned(ParseQuery(search)
             \o (IF e.window /\ hash # <<>> THEN ParseQuery(Tail(hash)) ELSE <<>>))

\* the pieces a callback URL's query or fragment is made of
QueryPieces ==
    {<<"code", "=", "1">>, <<"code", "=", "2">>, <<"state", "=", "x">>,
     <<"__proto__", "=", "x">>, <<"a", "+", "b", "=", "%26">>}

RECURSIVE Joined(_)
\* pieces joined by "&"
Joined(pieces) ==
    IF pieces = <<>> THEN <<>>
    ELSE IF Len(pieces) = 1 THEN pieces[1]
    ELSE pieces[1] \o <<"&">> \o Joined(Tail(pieces))

\* location.search without its "?"
Searches == {Joined(pieces) : pieces \in SeqsUpTo(QueryPieces, MaxParams)}
\* location.hash: empty, or "#" and a non-empty fragment
Hashes == {<<>>} \cup {<<"#">> \o q : q \in Searches \ {<<>>}}

\* the params object a callback page builds from its URL
PageParamsCall ==
    /\ call.fn = "none"
    /\ call' = [call EXCEPT !.fn = "pageParams",
                            !.merged = pageParamPairs(env, call.search, call.hash)]
    /\ UNCHANGED <<hook, twin, srv, env, provider, appUrl, ls, ss, now, nextState, cb, gs, so, si>>

\* the keys the providers read, out of the params map
pageParams(e, search, hash) ==
    [key \in DOMAIN NoParams |-> Get(pageParamPairs(e, search, hash), <<key>>)]

\* the URL the WebView loads when the secure session closes on a deeplink
\* {scheme}://oauth/{path}?{query}: the part after "?" is its search string
deeplinkSearch(url) ==
    IF \E i \in 1..Len(url) : url[i] = "?"
    THEN SubSeq(url, 1 + (CHOOSE i \in 1..Len(url) :
                            url[i] = "?" /\ \A j \in 1..(i - 1) : url[j] # "?"), Len(url))
    ELSE <<>>

\* the NativeCallback page loads in the secure browser session
NativeCallbackStart ==
    /\ cb.pc = "idle" /\ twin.cb.pc = "idle"
    /\ \E params \in ParamSet : CallbackStart("NativeCallback", params, TRUE)
    /\ twin' = twin

\* the deeplink closes the secure session and the WebView loads the Callback
\* page with the deeplink's query
DeeplinkDelivered ==
    /\ cb.kind = "NativeCallback" /\ cb.pc = "done" /\ cb.url # Undefined
    /\ twin.cb.pc = "idle"
    /\ LET params == pageParams(env, deeplinkSearch(cb.url), <<>>)
       IN  twin' = [twin EXCEPT !.cb = Started("Callback", params, FALSE), !.b = params]
    /\ UNCHANGED <<hook, call, srv, env, provider, appUrl, ls, ss, now, nextState, cb, gs, so, si>>

---------------------------------------------------------------------------
(* A whole flow: signIn, then the callback the provider redirects back with *)

\* the page at the redirectUri of the last signIn loads with the provider's
\* answer, which carries the state that signIn sent
CallbackDelivered ==
    /\ Quiet
    /\ si.pc = "done" /\ si.href # Undefined
    /\ cb.pc = "idle"
    /\ \E params \in ParamSet :
        cb' = Started(IF si.isNative THEN "NativeCallback" ELSE "Callback",
                      [params EXCEPT !.state = si.state], si.isNative)
    /\ UNCHANGED <<hook, twin, call, srv, env, provider, appUrl, ls, ss, now, nextState, gs, so, si>>

---------------------------------------------------------------------------
(* Specifications *)

InitCommon ==
    /\ provider \in Providers
    /\ \E config \in AppUrlConfigs : appUrl = StripTrailingSlash(config)
    /\ ls = EmptyStorage
    /\ ss = {}
    /\ now = 0
    /\ nextState = 0
    /\ cb = CbIdle /\ gs = GsIdle /\ so = SoIdle /\ si = SiIdle
    /\ srv = SrvInit
    /\ call = CallIdle
    /\ twin = TwinIdle
    /\ hook = HookIdle

\* callbacks, sessions and sign-out, in a browser and on a server
Init ==
    /\ env \in {Browser(<<"M", "o", "z">>), DeniedBrowser(<<"M", "o", "z">>), ServerSide}
    /\ InitCommon

Next ==
    \/ StartCallback
    \/ AfterHandleCallback
    \/ AfterSetSession
    \/ GetSessionStart
    \/ AfterUserinfo
    \/ AfterCustomGetSession
    \/ SignOutStart
    \/ AfterSignOut

Spec == Init /\ [][Next]_vars

\* the shipped providers' session store over time
InitSession ==
    /\ env \in {Browser(<<"M", "o", "z">>), DeniedBrowser(<<"M", "o", "z">>), ServerSide,
                 [Browser(<<"M", "o", "z">>) EXCEPT !.localStorage = FALSE]}
    /\ InitCommon
    /\ provider \in Shipped

NextSession ==
    \/ SetSessionCall
    \/ GetSessionStart
    \/ AfterUserinfo
    \/ SignOutStart
    \/ AfterSignOut
    \/ Tick

SpecSession == InitSession /\ [][NextSession]_vars

\* MockProvider.getSession with a setSession or a signOut running during its await
InitRace ==
    /\ env \in {Browser(<<"M", "o", "z">>), DeniedBrowser(<<"M", "o", "z">>)}
    /\ InitCommon
    /\ provider = "mock"

NextRace ==
    \/ FirstSetSession
    \/ RaceGetSessionStart
    \/ RaceSetSession
    \/ RaceSignOut
    \/ AfterUserinfo
    \/ Tick

SpecRace == InitRace /\ [][NextRace]_vars

\* a page using useOAuth with a shipped provider, mounted with or without a
\* session left in localStorage by an earlier visit
InitHook ==
    /\ env \in {Browser(<<"M", "o", "z">>), DeniedBrowser(<<"M", "o", "z">>)}
    /\ provider \in Shipped
    /\ appUrl = StripTrailingSlash(<<"https", ":", "/", "/", "app">>)
    /\ \E tokens \in HookTokenSets :
            ls \in {EmptyStorage, setSession(env, EmptyStorage, tokens, 0, "none").store}
    /\ ss = {}
    /\ now = 0
    /\ nextState = 0
    /\ cb = CbIdle /\ gs = GsIdle /\ so = SoIdle /\ si = SiIdle
    /\ srv = SrvInit
    /\ call = CallIdle
    /\ twin = TwinIdle
    /\ hook = HookIdle

NextHook ==
    \/ HookLoad
    \/ HookLoaded
    \/ HookPoll
    \/ HookPolled
    \/ HookSignOut
    \/ HookSetSession
    \/ Tick

SpecHook == InitHook /\ [][NextHook]_vars

\* the demo provider: issuing and redeeming authorization codes
InitServer ==
    /\ env = ServerSide
    /\ InitCommon
    /\ provider = "mock"

NextServer ==
    \/ Authorize
    \/ AuthorizePost
    \/ CodeJanitor
    \/ SrvTick

SpecServer == InitServer /\ [][NextServer]_vars

\* the demo provider: exchanging codes for tokens
NextToken ==
    \/ Authorize
    \/ Token
    \/ TokenTick

SpecToken == InitServer /\ [][NextToken]_vars

\* the demo provider: minting tokens and presenting them at /userinfo
NextUserinfo ==
    \/ Token
    \/ Userinfo
    \/ TokenJanitor
    \/ TokenTick

SpecUserinfo == InitServer /\ [][NextUserinfo]_vars

\* the Despia handler's functions, over their inputs: every host, and every
\* path, params record and scheme
InitHandler ==
    /\ provider = "mock"
    /\ appUrl = StripTrailingSlash(<<"https", ":", "/", "/", "app">>)
    /\ ls = EmptyStorage
    /\ ss = {}
    /\ now = 0
    /\ nextState = 0
    /\ cb = CbIdle /\ gs = GsIdle /\ so = SoIdle /\ si = SiIdle
    /\ srv = SrvInit
    /\ twin = TwinIdle
    /\ hook = HookIdle
    /\ \/ env \in Envs /\ call = CallIdle
       \/ /\ env = Browser(<<"M", "o", "z">>)
          /\ \E path \in DeeplinkPaths : \E params \in DeeplinkParams :
             \E scheme \in DeeplinkSchemes :
                call = [CallIdle EXCEPT !.path = path, !.params = params,
                                        !.scheme = scheme]

NextHandler ==
    \/ CreateDespiaDeeplinkCall
    \/ IsDespiaNativeCall

SpecHandler == InitHandler /\ [][NextHandler]_vars

\* a callback page reading the query and the fragment of its URL
InitPageParams ==
    /\ provider = "mock"
    /\ appUrl = StripTrailingSlash(<<"https", ":", "/", "/", "app">>)
    /\ ls = EmptyStorage
    /\ ss = {}
    /\ now = 0
    /\ nextState = 0
    /\ cb = CbIdle /\ gs = GsIdle /\ so = SoIdle /\ si = SiIdle
    /\ srv = SrvInit
    /\ twin = TwinIdle
    /\ hook = HookIdle
    /\ env = Browser(<<"M", "o", "z">>)
    /\ \E search \in Searches : \E hash \in Hashes :
            call = [CallIdle EXCEPT !.search = search, !.hash = hash]

NextPageParams == PageParamsCall

SpecPageParams == InitPageParams /\ [][NextPageParams]_vars

\* two callback runs side by side, in a browser and on a server, starting
\* from the same localStorage; the second with or without the oauth_state_* record
InitTwin ==
    /\ env \in {Browser(<<"M", "o", "z">>), ServerSide}
    /\ provider \in Providers
    /\ appUrl = StripTrailingSlash(<<"https", ":", "/", "/", "app">>)
    /\ ls = EmptyStorage
    /\ ss = storeState(env, {}, generateState(1))
    /\ now = 0
    /\ nextState = 0
    /\ cb = CbIdle /\ gs = GsIdle /\ so = SoIdle /\ si = SiIdle
    /\ srv = SrvInit
    /\ call = CallIdle
    /\ \E rec \in {{}, ss} : twin = [TwinIdle EXCEPT !.ls = ls, !.ss = rec]
    /\ hook = HookIdle

NextTwin ==
    \/ TwinStart
    \/ TwinAfterHandleCallback
    \/ TwinAfterSetSession

SpecTwin == InitTwin /\ [][NextTwin]_vars

\* the native flow: the secure session and the WebView are browser windows
InitNative ==
    /\ env \in {Browser(<<"M", "o", "z">>),
                 [Browser(<<"M", "o", "z">>) EXCEPT !.localStorage = FALSE]}
    /\ InitCommon

NextNative ==
    \/ NativeCallbackStart
    \/ DeeplinkDelivered
    \/ TwinAfterHandleCallback
    \/ TwinAfterSetSession

SpecNative == InitNative /\ [][NextNative]_vars

\* whole flows, in a browser and in the Despia shell
InitFlow ==
    /\ env \in {Browser(<<"M", "o", "z">>), Browser(<<"D", "e", "s", "p", "i", "a">>)}
    /\ InitCommon

NextFlow ==
    \/ SignInStart
    \/ AfterGetOAuthUrl
    \/ CallbackDelivered
    \/ AfterHandleCallback
    \/ AfterSetSession

SpecFlow == InitFlow /\ [][NextFlow]_vars

\* the callback pages' effects, in a browser window whose localStorage may
\* be present, missing or denied; the provider's promises settle
InitPages ==
    /\ env \in {Browser(<<"M", "o", "z">>), DeniedBrowser(<<"M", "o", "z">>),
                 ThrowingOnError(<<"M", "o", "z">>),
                 [Browser(<<"M", "o", "z">>) EXCEPT !.localStorage = FALSE]}
    /\ InitCommon

\* a callback page loads (every load is a fresh document)
StartPage ==
    /\ cb.pc = "idle"
    /\ \E kind \in {"Callback", "NativeCallback"} : \E params \in ParamSet :
       \E isNative \in IsNativeArgs(kind) :
        CallbackStart(kind, params, isNative)

NextPages ==
    \/ StartPage
    \/ AfterHandleCallback
    \/ AfterSetSession

SpecPagesLive ==
    /\ InitPages
    /\ [][NextPages]_vars
    /\ WF_vars(AfterHandleCallback)
    /\ WF_vars(AfterSetSession)

\* sign-in, in every host
InitSignIn ==
    /\ env \in Envs
    /\ InitCommon

NextSignIn ==
    \/ SignInStart
    \/ AfterGetOAuthUrl

SpecSignIn == InitSignIn /\ [][NextSignIn]_vars

\* config.appUrl with no, one or two trailing slashes
AppUrlConfigsSlashes ==
    AppUrlConfigs \cup {<<"https", ":", "/", "/", "app", "/", "/">>}

\* signIn on a manager constructed with any of these
InitConfig ==
    /\ env \in Envs
    /\ provider \in Providers
    /\ \E config \in AppUrlConfigsSlashes : appUrl = StripTrailingSlash(config)
    /\ ls = EmptyStorage
    /\ ss = {}
    /\ now = 0
    /\ nextState = 0
    /\ cb = CbIdle /\ gs = GsIdle /\ so = SoIdle /\ si = SiIdle
    /\ srv = SrvInit
    /\ call = CallIdle
    /\ twin = TwinIdle
    /\ hook = HookIdle

SpecConfig == InitConfig /\ [][NextSignIn]_vars

---------------------------------------------------------------------------
(* Reading a destination back, as its receiver does *)

\* where the query of a URL starts: after the first "?" (0: no query)
QueryStart(url) ==
    IF \E i \in 1..Len(url) : url[i] = "?"
    THEN 1 + CHOOSE i \in 1..Len(url) : url[i] = "?" /\ \A j \in 1..(i - 1) : url[j] # "?"
    ELSE 0

\* the number of name=value pairs in a URL's query
QueryPairs(url) ==
    IF QueryStart(url) = 0 THEN 0
    ELSE 1 + Cardinality({i \in QueryStart(url)..Len(url) : url[i] = "&"})

\* the parameter names in a URL's query
QueryKeys(url) ==
    IF QueryStart(url) = 0 THEN {}
    ELSE LET starts == {k \in QueryStart(url)..Len(url) :
                            k = QueryStart(url) \/ url[k - 1] = "&"}
             end(k) == IF \E e \in k..Len(url) : url[e] \in {"=", "&"}
                       THEN CHOOSE e \in k..Len(url) :
                                /\ url[e] \in {"=", "&"}
                                /\ \A j \in k..(e - 1) : url[j] \notin {"=", "&"}
                       ELSE Len(url) + 1
         IN  {SubSeq(url, k, end(k) - 1) : k \in starts}

InTrace(x) == \E i \in 1..Len(cb.trace) : cb.trace[i] = x

\* OAuthManager.handleCallback has settled
ManagerDone == cb.kind = "handleCallback" /\ cb.pc = "done"

\* the rejection the catch block received
Cause == IF cb.hc.st = "rejected" THEN cb.hc ELSE cb.set

NativeSuccess ==
    ManagerDone /\ cb.isNative /\ cb.hc.st = "resolved" /\ cb.set.st = "resolved"

NativeFailure ==
    ManagerDone /\ cb.isNative /\ (cb.hc.st = "rejected" \/ cb.set.st = "rejected")

WebSuccess ==
    ManagerDone /\ ~cb.isNative /\ cb.hc.st = "resolved" /\ cb.set.st = "resolved"

---------------------------------------------------------------------------
(* Claims *)

\* C1: OAuthManager.handleCallback(params, isNative) never rejects: whatever
\* the params, isNative and the provider's behaviour, the call resolves with a
\* redirectUrl.
C1_HandleCallbackNeverRejects ==
    ManagerDone => (cb.settled = "resolved" /\ cb.url # Undefined)

\* C2, as stated: a native success returns scheme://oauth/callback?access_token=T
\* &refresh_token=R with T and R verbatim, refresh_token present iff the
\* provider returned one, and the following getSession returns access_token T.
C2_AsStated ==
    /\ NativeSuccess =>
         cb.url = deeplinkScheme
                  \o <<":", "/", "/", "oauth", "/", "callback", "?", "access_token", "=">>
                  \o ToStr(cb.result.access_token)
                  \o (IF cb.result.refresh_token # Undefined
                      THEN <<"&", "refresh_token", "=">> \o cb.result.refresh_token
                      ELSE <<>>)
    /\ (gs.pc = "done" /\ gs.prev = "nativeSuccess") =>
         gs.session.access_token = gs.prevToken

\* the getSession check of the shipped provider passed: the userinfo endpoint
\* accepted the token (MockProvider), the stored expiry has not passed
\* (ClientSideMockProvider)
ProviderAccepted ==
    IF provider = "mock" THEN gs.reply = "ok"
    ELSE gs.expiresAt = NoItem \/ parseIntItem(gs.expiresAt).n >= now

\* C2, amended: a native success returns scheme://oauth/callback?access_token=
\* <T form-encoded>, followed by &refresh_token=<R form-encoded> iff R is a
\* non-empty string; with a shipped provider the following getSession returns
\* null or a session whose access_token is String(T), and it returns that
\* session when storage is available, String(T) is non-empty and the
\* provider's own check accepts the token.
C2_NativeSuccess ==
    /\ NativeSuccess =>
         /\ cb.settled = "resolved"
         /\ cb.url = deeplinkScheme
                     \o <<":", "/", "/", "oauth", "/", "callback", "?", "access_token", "=">>
                     \o FormEncode(ToStr(cb.result.access_token))
                     \o (IF Truthy(cb.result.refresh_token)
                         THEN <<"&", "refresh_token", "=">> \o FormEncode(cb.result.refresh_token)
                         ELSE <<>>)
         /\ (cb.result.access_token = <<"T">> /\ cb.result.refresh_token = <<"R">>) =>
              cb.url = <<"myapp", ":", "/", "/", "oauth", "/", "callback", "?",
                         "access_token", "=", "T", "&", "refresh_token", "=", "R">>
    /\ (gs.pc = "done" /\ gs.prev = "nativeSuccess" /\ provider \in Shipped) =>
         /\ gs.settled = "resolved"
         /\ gs.session = NoSession \/ gs.session.access_token = ToStr(gs.prevToken)
         /\ (~NoStorage(env) /\ Truthy(ToStr(gs.prevToken)) /\ ProviderAccepted) =>
              gs.session.access_token = ToStr(gs.prevToken)

C2_Witness ==
    /\ gs.pc = "done" /\ gs.prev = "nativeSuccess"
    /\ gs.prevToken = <<"T", "+">>
    /\ gs.session.access_token = <<"T", "+">>

\* C3, as stated: with the shipped providers, every web callback whose params
\* carry `error` resolves to {appUrl}/auth/callback?error=<params.error,
\* URL-encoded>, with or without error_description.
C3_AsStated ==
    (ManagerDone /\ ~cb.isNative /\ provider \in Shipped /\ Truthy(cb.error)) =>
        /\ cb.settled = "resolved"
        /\ cb.url = appUrl \o <<"/", "auth", "/", "callback", "?", "error", "=">>
                    \o encodeURIComponent(cb.error)

\* C3, amended: with the shipped providers, every web callback whose params
\* carry a non-empty `error` resolves, without a setSession call, to
\* {appUrl}/auth/callback?error=<value> where the value is the URL-encoded
\* error_description when that is non-empty and the URL-encoded error otherwise.
C3_WebFailure ==
    (ManagerDone /\ ~cb.isNative /\ provider \in Shipped /\ Truthy(cb.error)) =>
        /\ cb.settled = "resolved"
        /\ cb.url = appUrl \o <<"/", "auth", "/", "callback", "?", "error", "=">>
                    \o encodeURIComponent(IF Truthy(cb.desc) THEN cb.desc ELSE cb.error)
        /\ (cb.error = <<"access_denied">> /\ cb.desc = Undefined) =>
             cb.url = <<"https", ":", "/", "/", "app", "/", "auth", "/", "callback",
                        "?", "error", "=", "access_denied">>
        /\ cb.desc = <<"user", " ", "denied">> =>
             cb.url = <<"https", ":", "/", "/", "app", "/", "auth", "/", "callback",
                        "?", "error", "=", "user", "%20", "denied">>
        /\ ~InTrace("setSession")

C3_Witness ==
    /\ ManagerDone /\ ~cb.isNative /\ provider \in Shipped
    /\ cb.error = <<"access_denied">> /\ cb.desc = <<"user", " ", "denied">>
    /\ cb.settled = "resolved"

\* C4: whenever provider.handleCallback or provider.setSession rejects,
\* OAuthManager.handleCallback(params, true) returns the deeplink
\* {scheme}://oauth/callback?error=<message>, whose only parameter is `error`:
\* it never carries access_token or refresh_token.
C4_NativeFailure ==
    NativeFailure =>
        /\ cb.settled = "resolved"
        /\ cb.url = <<"myapp", ":", "/", "/", "oauth", "/", "callback", "?", "error", "=">>
                    \o FormEncode(IF Cause.isError THEN Cause.msg ELSE AuthFailedMsg)
        /\ QueryPairs(cb.url) = 1
        /\ QueryKeys(cb.url) = {<<"error">>}

C4_Witness ==
    /\ NativeFailure
    /\ cb.set.st = "rejected"
    /\ cb.result.access_token = <<"T">> /\ cb.result.refresh_token = <<"R">>

\* C5: when the provider exchange succeeds, OAuthManager.handleCallback(params,
\* false) returns exactly {appUrl}/auth/callback, with no query string and no
\* token, and only after provider.setSession has completed: the session is
\* persisted when the caller receives the redirectUrl.
C5_WebSuccess ==
    /\ WebSuccess =>
         /\ cb.settled = "resolved"
         /\ cb.url = <<"https", ":", "/", "/", "app", "/", "auth", "/", "callback">>
         /\ QueryPairs(cb.url) = 0
         /\ cb.trace = <<"handleCallback", "handleCallback.resolved",
                         "setSession", "setSession.resolved">>
         /\ (provider \in Shipped /\ ~NoStorage(env)) =>
              ls.at = ToStr(cb.result.access_token)
    /\ (cb.kind = "handleCallback" /\ ~cb.isNative /\ cb.url # Undefined
        /\ QueryPairs(cb.url) = 0) =>
         (cb.set.st = "resolved" /\ cb.trace[Len(cb.trace)] = "setSession.resolved")

C5_Witness ==
    WebSuccess /\ provider = "mock" /\ ls.at = <<"T">> /\ cb.result.access_token = <<"T">>

\* C6, as stated: in OAuthManager.handleCallback, the Callback page and the
\* NativeCallback page, setSession is invoked only after handleCallback
\* resolved for the same callback, and a callback whose params carry `error`
\* or whose handleCallback rejects never leads to a setSession call.
C6_AsStated ==
    /\ InTrace("setSession") =>
         (cb.hc.st = "resolved" /\ Len(cb.trace) >= 3
          /\ SubSeq(cb.trace, 1, 3) = <<"handleCallback", "handleCallback.resolved", "setSession">>)
    /\ cb.hc.st = "rejected" => ~InTrace("setSession")
    /\ cb.error # Undefined => ~InTrace("setSession")

\* C6, amended: in all three, setSession is invoked at most once and only
\* after handleCallback resolved for the same callback, never after it
\* rejected; a callback whose params carry a non-empty `error` never leads to
\* setSession on the Callback page (which checks it itself) nor with the
\* shipped providers (which reject it). OAuthManager.handleCallback and
\* NativeCallback do not look at `error`, and an empty `error` counts as none.
C6_SetSessionAfterHandleCallback ==
    /\ InTrace("setSession") =>
         /\ cb.hc.st = "resolved"
         /\ Len(cb.trace) >= 3
         /\ SubSeq(cb.trace, 1, 3) = <<"handleCallback", "handleCallback.resolved", "setSession">>
         /\ \A i \in 4..Len(cb.trace) : cb.trace[i] # "setSession"
    /\ cb.hc.st = "rejected" => ~InTrace("setSession")
    /\ (Truthy(cb.error) /\ (cb.kind = "Callback" \/ provider \in Shipped)) =>
         ~InTrace("setSession")

C6_Witness ==
    /\ cb.kind = "NativeCallback" /\ cb.pc = "done"
    /\ provider = "mock" /\ cb.error = <<>>
    /\ cb.set.st = "resolved"

\* the host is a Despia shell: its user agent contains "despia" in any case
DespiaShell ==
    /\ env.navigator
    /\ env.userAgent \in {<<"D", "e", "s", "p", "i", "a">>,
                          <<"x", "d", "e", "S", "P", "i", "a", "x">>}

\* C7: in every signIn call the redirectUri passed to provider.getOAuthUrl is
\* {appUrl}/native-callback when isDespiaNative() is true and
\* {appUrl}/auth/callback when it is false, and never anything else.
C7_RedirectUri ==
    si.pc # "idle" =>
        /\ si.isNative = DespiaShell
        /\ DespiaShell =>
             si.redirectUri = <<"https", ":", "/", "/", "app", "/", "native-callback">>
        /\ ~DespiaShell =>
             si.redirectUri = <<"https", ":", "/", "/", "app", "/", "auth", "/", "callback">>
        /\ si.redirectUri \in {appUrl \o NATIVE_CALLBACK_PATH, appUrl \o WEB_CALLBACK_PATH}

C7_Witness ==
    /\ si.pc = "awaitGetOAuthUrl"
    /\ si.redirectUri = <<"https", ":", "/", "/", "app", "/", "native-callback">>
    /\ env.userAgent = <<"x", "d", "e", "S", "P", "i", "a", "x">>

\* C8: the dispatch form of a signIn call agrees with the redirectUri of that
\* call: a call that passed {appUrl}/native-callback navigates to
\* oauth://?url=<encoded authorization URL>, a call that passed
\* {appUrl}/auth/callback navigates to the authorization URL itself; in a
\* window, a call whose provider returned an encodable URL does navigate.
C8_DispatchAgrees ==
    si.pc = "done" =>
        /\ (si.href # Undefined /\ si.redirectUri = appUrl \o NATIVE_CALLBACK_PATH) =>
             si.href = <<"oauth", ":", "/", "/", "?", "url", "=">>
                       \o encodeURIComponent(si.oauthUrl)
        /\ (si.href # Undefined /\ si.redirectUri = appUrl \o WEB_CALLBACK_PATH) =>
             si.href = si.oauthUrl
        /\ (si.out.st = "resolved" /\ env.window /\ ~UriMalformed(si.oauthUrl)) =>
             (si.settled = "resolved" /\ si.href # Undefined)

C8_Witness ==
    /\ si.pc = "done" /\ provider = "mock"
    /\ si.redirectUri = <<"https", ":", "/", "/", "app", "/", "native-callback">>
    /\ si.href # Undefined
    /\ si.href[1] = "oauth"

\* C9: after any sequence of operations, a completed signOut() followed by
\* getSession() returns null, whatever was stored before the signOut (the
\* shipped providers).
C9_SignOutThenGetSession ==
    (gs.pc = "done" /\ gs.prev = "signOut" /\ provider \in Shipped) =>
        /\ gs.settled = "resolved"
        /\ gs.session = NoSession

C9_Witness ==
    /\ gs.pc = "done" /\ gs.prev = "signOut" /\ gs.prevHad
    /\ provider = "mock" /\ ~NoStorage(env)

C11_AsStated ==
    (gs.pc = "done" /\ gs.prev = "setSession" /\ gs.prevExpiresIn.k = "num") =>
        /\ gs.session.access_token = gs.prevToken
        /\ gs.session.expires_at = Num(gs.prevAt + gs.prevExpiresIn.n * 1000)

\* C11, amended: for every token set ts with a non-zero expires_in, when
\* setSession(ts) resolved and the following getSession() of a shipped provider
\* returns a session, that session's access_token is ts.access_token and its
\* expires_at is the clock at the setSession call plus ts.expires_in * 1000;
\* getSession returns the session when storage is available, the token is
\* non-empty and the provider accepts it, and null otherwise.
C11_RoundTrip ==
    (gs.pc = "done" /\ gs.prev = "setSession" /\ provider \in Shipped
     /\ NumTruthy(gs.prevExpiresIn)) =>
        /\ gs.settled = "resolved"
        /\ gs.session # NoSession =>
             /\ gs.session.access_token = gs.prevToken
             /\ gs.session.expires_at = Num(gs.prevAt + gs.prevExpiresIn.n * 1000)
        /\ (~NoStorage(env) /\ Truthy(gs.prevToken) /\ ProviderAccepted) =>
             gs.session # NoSession

C11_Witness ==
    /\ gs.pc = "done" /\ gs.prev = "setSession"
    /\ gs.prevAt = 1000 /\ gs.prevExpiresIn = Num(1)
    /\ gs.session.access_token = <<"U">>
    /\ gs.session.expires_at = Num(2000)

\* C12: getSession() of the shipped providers never rejects: every read
\* failure (storage missing or throwing on read, the userinfo request
\* failing) is reported as null.
C12_GetSessionNeverRejects ==
    (gs.pc = "done" /\ provider \in Shipped) => gs.settled = "resolved"

\* C13: an authorization code is single-use at the token endpoint: once POST
\* /token has exchanged a code, every later POST /token with the same code is
\* rejected and issues no tokens.
C13_CodeSingleUseAtToken ==
    (/\ srv.resp.op = "token"
     /\ srv.resp.exchanged
     /\ \E c \in srv.everIssued : c.code = srv.resp.code) =>
        (srv.resp.status = 400 /\ srv.resp.access_token = Undefined)

\* C14, as stated: an authorization code presented (and not redeemed before)
\* after its 10-minute lifetime is rejected with 'Authorization code expired',
\* however the request interleaves with the code janitor.
C14_AsStated ==
    (srv.resp.op = "authorizePost" /\ srv.resp.late /\ ~srv.resp.redeemed) =>
        (srv.resp.status = 400 /\ srv.resp.text = "Authorization code expired")

\* C14, amended: POST /authorize with a code past its 10-minute lifetime is
\* always rejected with status 400 and never redirects; when the request
\* carries a redirect_uri the message is 'Authorization code expired' if the
\* code is still stored and 'Invalid authorization code' if the janitor (or an
\* earlier use) removed it, and the code is gone afterwards.
C14_LateCodeRejected ==
    (srv.resp.op = "authorizePost" /\ srv.resp.late /\ Truthy(srv.resp.code)) =>
        /\ srv.resp.status = 400
        /\ srv.resp.location = Undefined
        /\ srv.resp.text \in {"Authorization code expired", "Invalid authorization code",
                              "Missing required parameters"}
        /\ srv.resp.text = "Authorization code expired" => srv.resp.stored
        /\ srv.resp.text = "Invalid authorization code" => ~srv.resp.stored
        /\ srv.resp.text # "Missing required parameters" =>
             StoredCodes(srv.authCodes, srv.resp.code) = {}

C14_Witness ==
    /\ srv.resp.op = "authorizePost" /\ srv.resp.late /\ ~srv.resp.redeemed
    /\ srv.resp.text = "Invalid authorization code"

\* a string as a sequence of Unicode scalar values: a lone surrogate reads U+FFFD
USV(s) == [i \in 1..Len(s) |-> IF s[i] = LS THEN "\\uFFFD" ELSE s[i]]

\* C15: createDespiaDeeplink(path, params, scheme) returns a string of the
\* form {scheme}://oauth/{p}?{q}, where p is path without its first character
\* when that is a slash (path itself otherwise) and q is the URL query
\* encoding of params: it holds no raw space, percent sign, slash, question
\* mark or lone surrogate, and reads back as the entries of params in order.
C15_DeeplinkFormat ==
    call.fn = "createDespiaDeeplink" =>
        LET path == call.path
            p == IF Len(path) > 0 /\ path[1] = "/" THEN SubSeq(path, 2, Len(path)) ELSE path
            prefix == call.scheme \o <<":", "/", "/", "oauth", "/">> \o p \o <<"?">>
            q == SubSeq(call.url, Len(prefix) + 1, Len(call.url))
        IN  /\ IsStr(call.url)
            /\ Len(call.url) >= Len(prefix)
            /\ SubSeq(call.url, 1, Len(prefix)) = prefix
            /\ \A i \in 1..Len(q) : q[i] \notin {" ", "%", "/", "?", LS}
            /\ ParseQuery(q) = [i \in 1..Len(call.params) |->
                                  <<USV(call.params[i][1]), USV(call.params[i][2])>>]

C15_Witness ==
    /\ call.fn = "createDespiaDeeplink"
    /\ call.path = <<"/", "/", "cb">>
    /\ Len(call.params) = MaxParams
    /\ call.params[1][2] = <<"&">>
    /\ call.params[2][2] = <<LS>>

\* C16: isDespiaNative() returns true exactly when navigator exists and its
\* userAgent contains the letters d, e, s, p, i, a in a row, each in either
\* case; without navigator it returns false.
C16_NativeIffMarker ==
    call.fn = "isDespiaNative" =>
        LET ua == env.userAgent
            marker == <<{"d", "D"}, {"e", "E"}, {"s", "S"}, {"p", "P"}, {"i", "I"}, {"a", "A"}>>
            has == \E i \in 0..(Len(ua) - 6) : \A j \in 1..6 : ua[i + j] \in marker[j]
        IN  /\ call.native = (env.navigator /\ has)
            /\ ~env.navigator => ~call.native

C16_Witness ==
    /\ call.fn = "isDespiaNative"
    /\ env.userAgent = <<"x", "d", "e", "S", "P", "i", "a", "x">>
    /\ call.native

\* both runs have ended
TwinDone(kindA, kindB) ==
    /\ cb.pc = "done" /\ cb.kind = kindA
    /\ twin.cb.pc = "done" /\ twin.cb.kind = kindB

\* ClientSideMockProvider quotes the params in its error when they hold no
\* error, no access_token and no code (line 60)
ParamsEchoed ==
    /\ provider = "client"
    /\ ~Truthy(twin.a.error) /\ ~Truthy(twin.a.access_token) /\ ~Truthy(twin.a.code)

\* C17, as stated: two runs of OAuthManager.handleCallback that differ only in
\* the `state` parameter and in whether the oauth_state_* record exists return
\* the same redirectUrl and leave the same session in localStorage.
C17_AsStated ==
    TwinDone("handleCallback", "handleCallback") =>
        /\ cb.settled = twin.cb.settled
        /\ cb.url = twin.cb.url
        /\ ls = twin.ls

\* C17, amended: the two runs settle alike and leave the same localStorage;
\* their redirectUrl is the same too, except that when ClientSideMockProvider
\* finds no error, access_token or code, both URLs are failure URLs whose
\* `error` text quotes the params, `state` included.
C17_StateNotEnforced ==
    TwinDone("handleCallback", "handleCallback") =>
        /\ cb.settled = twin.cb.settled
        /\ ls = twin.ls
        /\ ~ParamsEchoed => cb.url = twin.cb.url
        /\ ParamsEchoed =>
            /\ ls = EmptyStorage
            /\ cb.settled = "resolved"
            /\ QueryKeys(cb.url) = {<<"error">>}
            /\ QueryKeys(twin.cb.url) = {<<"error">>}
            /\ QueryStart(cb.url) = QueryStart(twin.cb.url)
            /\ SubSeq(cb.url, 1, QueryStart(cb.url) - 1) =
                 SubSeq(twin.cb.url, 1, QueryStart(cb.url) - 1)

C17_Witness ==
    /\ TwinDone("handleCallback", "handleCallback")
    /\ provider = "mock"
    /\ twin.b.state = <<"forged">>
    /\ ss # {} /\ twin.ss = {}
    /\ cb.set.st = "resolved"
    /\ ls.at = <<"T">>
    /\ cb.url = twin.cb.url

\* C18: persisting the state record is best-effort: in a window whose
\* sessionStorage is absent or throws on setItem, signIn (with a shipped
\* provider) still obtains the authorization URL for the generated state,
\* dispatches the redirect and resolves.
C18_StateRecordBestEffort ==
    (/\ si.pc = "done"
     /\ provider \in Shipped
     /\ env.window
     /\ env.sessionStorage \in {"absent", "throws"}) =>
        /\ ~si.stored
        /\ si.out.st = "resolved"
        /\ si.settled = "resolved"
        /\ si.href # Undefined

\* C19: for the same params and the same provider outcome, in a window, the
\* NativeCallback page (exitPath '/auth/callback') navigates to the deeplink
\* that OAuthManager.handleCallback(params, true) returns, on success and on
\* failure.
C19_NativeLandingEquivalent ==
    (TwinDone("handleCallback", "NativeCallback") /\ env.window) =>
        /\ cb.settled = "resolved"
        /\ twin.cb.url = cb.url

\* C20: for the same params and the same provider outcome, in a window, the
\* Callback page makes the provider calls that
\* OAuthManager.handleCallback(params, false) makes and ends at the URL it
\* returns: {appUrl}/auth/callback on success, the same path with an `error`
\* query parameter on failure.
C20_WebLandingEquivalent ==
    (TwinDone("handleCallback", "Callback") /\ env.window) =>
        /\ twin.cb.trace = cb.trace
        /\ twin.cb.url = cb.url
        /\ cb.set.st = "resolved" => twin.cb.url = appUrl \o WEB_CALLBACK_PATH
        /\ cb.set.st # "resolved" => QueryKeys(twin.cb.url) = {<<"error">>}

\* the WebView's Callback page has ended, after a NativeCallback success
WebViewDone ==
    /\ cb.kind = "NativeCallback" /\ cb.pc = "done"
    /\ cb.hc.st = "resolved" /\ cb.set.st = "resolved"
    /\ twin.cb.kind = "Callback" /\ twin.cb.pc = "done"

\* C21: with a shipped provider, once the NativeCallback page has succeeded
\* and the WebView's Callback page has processed the deeplink's parameters,
\* that page has called provider.setSession with the access token of the
\* deeplink.
C21_WebViewSessionSet ==
    (WebViewDone /\ provider \in Shipped) =>
        /\ \E i \in 1..Len(twin.cb.trace) : twin.cb.trace[i] = "setSession"
        /\ twin.cb.result.access_token = ToStr(cb.result.access_token)

\* C22: signIn does not resolve before the round trip is over: whenever a
\* signIn that dispatched its redirect has resolved, the callback of that
\* flow has been delivered.
C22_SignInAwaitsRoundTrip ==
    (si.pc = "done" /\ si.settled = "resolved" /\ si.href # Undefined) => cb.pc # "idle"

\* C23: signIn catches provider-level failures: when provider.getOAuthUrl
\* rejects, the promise of signIn does not reject.
C23_SignInCatchesProvider ==
    (si.pc = "done" /\ si.out.st = "rejected") => si.settled = "resolved"

\* where a run of the Callback page ends: navigate(redirectTo), or the error view
CallbackPageEnded ==
    /\ cb.kind = "Callback" /\ cb.pc = "done"
    /\ \/ cb.url = redirectTo /\ cb.view = Null /\ cb.set.st = "resolved"
       \/ cb.url = Undefined /\ IsStr(cb.view)

\* where a run of the NativeCallback page ends: at a success deeplink or an
\* error deeplink
NativeCallbackPageEnded ==
    /\ cb.kind = "NativeCallback" /\ cb.pc = "done"
    /\ IsStr(cb.url)
    /\ SubSeq(cb.url, 1, 5) = deeplinkScheme \o <<":", "/", "/", "oauth">>
    /\ \/ cb.set.st = "resolved" /\ <<"access_token">> \in QueryKeys(cb.url)
       \/ cb.set.st # "resolved" /\ QueryKeys(cb.url) = {<<"error">>}

BearerValid ==
    /\ Truthy(srv.resp.authorization)
    /\ Len(srv.resp.authorization) > 2
    /\ srv.resp.authorization[1] = "Bearer" /\ srv.resp.authorization[2] = " "
    /\ srv.resp.inTime

\* C25: GET /userinfo answers 200 with the user record exactly when the
\* Bearer token was issued by POST /token and its 1-hour lifetime has not
\* passed; otherwise (no header, another scheme, unknown, expired or swept
\* token) it answers 401 with error 'invalid_token'.
C25_UserinfoIffValidToken ==
    srv.resp.op = "userinfo" =>
        /\ BearerValid => (srv.resp.status = 200 /\ srv.resp.user)
        /\ ~BearerValid =>
            (srv.resp.status = 401 /\ srv.resp.text = "invalid_token" /\ ~srv.resp.user)

C25_Witness ==
    /\ srv.resp.op = "userinfo"
    /\ srv.resp.status = 401
    /\ ~srv.resp.inTime
    /\ \E k \in srv.everMinted : <<"Bearer", " ">> \o k.accessToken = srv.resp.authorization


\* a step in which a shipped provider's signOut() is called
SignOutCalled ==
    /\ provider \in Shipped
    /\ so'.pc = "awaitSignOut"
    /\ so.pc # "awaitSignOut"

\* what the call leaves: nothing changes when nothing was stored, and a call
\* that follows a finished signOut() changes nothing either
SignOutSameState ==
    /\ (ls = EmptyStorage => ls' = ls)
    /\ (so.pc = "done" => ls' = ls)
    /\ ss' = ss

\* C26: provider.signOut() of the shipped providers is idempotent: every call
\* succeeds (its promise resolves), a call with no session stored changes
\* nothing, and a second consecutive call leaves the state the first one left
C26_SignOutIdempotent ==
    [][SignOutCalled => (so'.out = Resolved /\ SignOutSameState)]_vars

\* the storage half of C26 alone
SignOutStorageIdempotent ==
    [][SignOutCalled => SignOutSameState]_vars


\* the three items a session of `tokens` alone, stored at time t, consists of
SlotOf(tokens, t) ==
    [at |-> ToStr(tokens.access_token),
     rt |-> IF Truthy(tokens.refresh_token) THEN tokens.refresh_token ELSE Null,
     ea |-> IF NumTruthy(tokens.expires_in)
            THEN NumStr(t + tokens.expires_in.n * 1000) ELSE NoItem]

\* C27: after a shipped provider's setSession(tokens) has resolved where
\* storage is usable, the stored access token, refresh token and expiry are
\* those derived from `tokens` alone (absent when `tokens` has none),
\* whatever was stored before
C27_SetSessionReplacesSlot ==
    (/\ cb.kind = "setSession"
     /\ cb.set = Resolved
     /\ ~NoStorage(env))
        => ls = SlotOf(cb.result, cb.t)


\* a step in which a shipped provider's getSession() returns a session
GetSessionReturned ==
    /\ provider \in Shipped
    /\ gs.pc # "done"
    /\ gs'.pc = "done"
    /\ gs'.session # NoSession

\* C28: the stored oauth_expires_at changes only in a setSession step, or by
\* the removal of the whole session (signOut, or getSession dropping an
\* expired or refused token); a getSession that returns a session leaves the
\* item as it was and returns the number it holds
C28_ExpiresAtWrittenOnlyBySetSession ==
    [][/\ ls'.ea # ls.ea =>
            \/ cb'.kind = "setSession" /\ ls'.ea = SlotOf(cb'.result, cb'.t).ea
            \/ ls' = EmptyStorage
       /\ GetSessionReturned =>
            /\ ls' = ls
            /\ ls.ea # NoItem => gs'.session.expires_at = Num(ls.ea.n)
            /\ ls.ea = NoItem => gs'.session.expires_at = UndefNum]_vars

\* getSession has returned a stored expiry after time has passed since it was
\* written
C28_Witness ==
    /\ provider \in Shipped
    /\ gs.pc = "done"
    /\ gs.session # NoSession
    /\ gs.session.expires_at.k = "num"
    /\ ls.ea = NumStr(gs.session.expires_at.n)
    /\ now > gs.prevAt


\* the keys of a query string, as URLSearchParams reads them
KeysOf(q) == {ParseQuery(q)[i][1] : i \in 1..Len(ParseQuery(q))}

\* the fragment's query string
HashQuery(hash) == IF hash = <<>> THEN <<>> ELSE Tail(hash)

\* the value the union gives a key: the fragment's when the fragment has the
\* key, the query's otherwise
UnionValue(search, hash, key) ==
    IF key \in KeysOf(HashQuery(hash))
    THEN Get(ParseQuery(HashQuery(hash)), key)
    ELSE Get(ParseQuery(search), key)

\* C29: the params object of a callback page is the union of the query's and
\* the fragment's parameters: every key of either is in it, with the
\* fragment's value on a clash, and it has no other key
C29_ParamsAreUnion ==
    call.fn = "pageParams" =>
        /\ \A key \in KeysOf(call.search) \cup KeysOf(HashQuery(call.hash)) :
              Get(call.merged, key) = UnionValue(call.search, call.hash, key)
        /\ \A i \in 1..Len(call.merged) :
              call.merged[i][1] \in KeysOf(call.search) \cup KeysOf(HashQuery(call.hash))

\* the same for every key but __proto__
PageParamsUnionOfOrdinaryKeys ==
    call.fn = "pageParams" =>
        /\ \A key \in (KeysOf(call.search) \cup KeysOf(HashQuery(call.hash)))
                        \ {<<"__proto__">>} :
              Get(call.merged, key) = UnionValue(call.search, call.hash, key)
        /\ \A i \in 1..Len(call.merged) :
              call.merged[i][1] \in KeysOf(call.search) \cup KeysOf(HashQuery(call.hash))

\* a clash between query and fragment was resolved
PageParamsClash ==
    /\ call.fn = "pageParams"
    /\ Get(ParseQuery(call.search), <<"code">>) = <<"1">>
    /\ Get(call.merged, <<"code">>) = <<"2">>
    /\ Get(call.merged, <<"a", " ", "b">>) = <<"&">>


\* a step in which signIn is called: it runs up to its first await
SignInCalled ==
    /\ si'.pc = "awaitGetOAuthUrl"
    /\ nextState' # nextState

\* a step in which provider.getOAuthUrl has settled and signIn runs to its end
SignInSettled ==
    /\ si.pc = "awaitGetOAuthUrl"
    /\ si'.pc = "done"

\* C30 as stated: every signIn that has run to its end has stored a record for
\* its state and dispatched a redirect
C30_AsStated ==
    si.pc = "done" => (si.state \in ss /\ si.href # Undefined)

\* C30: no step removes the oauth_state_* record of an earlier flow (no
\* timeout, no cancel); every further signIn generates a state no earlier
\* flow had, adds a record for it where sessionStorage is usable (earlier
\* records stay), and dispatches a redirect exactly when provider.getOAuthUrl
\* resolved, signIn itself resolved and there is a window; when
\* provider.getOAuthUrl rejects, signIn rejects and dispatches nothing
C30_SignInIndependentOfEarlierFlows ==
    [][/\ ss \subseteq ss'
       /\ SignInCalled =>
            /\ si'.state \notin ss
            /\ si'.state # si.state
            /\ \A n \in 1..nextState : si'.state # generateState(n)
            /\ ss' = IF env.sessionStorage = "ok" THEN ss \cup {si'.state} ELSE ss
       /\ SignInSettled =>
            /\ si'.state = si.state
            /\ ss' = ss
            /\ si'.href # Undefined <=>
                    (si'.out.st = "resolved" /\ si'.settled = "resolved" /\ env.window)
            /\ si'.out.st = "rejected" => si'.settled = "rejected"]_vars

\* a second signIn has redirected while the first flow's record is still there
C30_Witness ==
    /\ nextState = 2
    /\ si.pc = "done"
    /\ si.href # Undefined
    /\ si.state = generateState(2)
    /\ ss = {generateState(1), generateState(2)}


\* C31: POST /authorize redirects with a code only if GET /authorize issued
\* it, its ten minutes have not passed and no earlier POST /authorize was
\* redirected with it; the accepted code is no longer in authCodes
C31_CodeAcceptedAtMostOnce ==
    (srv.resp.op = "authorizePost" /\ srv.resp.status = 302) =>
        /\ \E c \in srv.everIssued : c.code = srv.resp.code
        /\ ~srv.resp.late
        /\ ~srv.resp.redeemed
        /\ srv.resp.stored
        /\ StoredCodes(srv.authCodes, srv.resp.code) = {}

\* a code that was accepted is presented again, in time, and refused
C31_Witness ==
    /\ srv.resp.op = "authorizePost"
    /\ srv.resp.redeemed
    /\ ~srv.resp.late
    /\ srv.resp.status = 400
    /\ srv.resp.location = Undefined


\* s starts with prefix
StartsWith(s, prefix) ==
    Len(s) >= Len(prefix) /\ SubSeq(s, 1, Len(prefix)) = prefix

\* C36: POST /authorize redirects with a code only to the redirect_uri that
\* GET /authorize recorded for that code
C36_RedirectBoundToIssuedUri ==
    (srv.resp.op = "authorizePost" /\ srv.resp.status = 302) =>
        \E c \in srv.everIssued :
            /\ c.code = srv.resp.code
            /\ StartsWith(srv.resp.location, c.redirectUri \o <<"?">>)


\* the number of slashes a string ends with
RECURSIVE TrailingSlashes(_)
TrailingSlashes(url) ==
    IF Len(url) > 0 /\ url[Len(url)] = "/"
    THEN 1 + TrailingSlashes(SubSeq(url, 1, Len(url) - 1))
    ELSE 0

\* C32: the manager's base URL has no trailing slash, and a redirectUri is
\* the base, one slash and the rest of the callback path
C32_BaseHasNoTrailingSlash ==
    /\ TrailingSlashes(appUrl) = 0
    /\ si.pc # "idle" =>
          \E path \in {WEB_CALLBACK_PATH, NATIVE_CALLBACK_PATH} :
              /\ si.redirectUri = appUrl \o path
              /\ TrailingSlashes(SubSeq(si.redirectUri, 1, Len(appUrl) + 1)) = 1


\* the session getSession would build from a storage content
SnapshotOf(store) == SessionFrom(store.at, store)

\* C33: a session returned by MockProvider.getSession is the one stored by a
\* single setSession call: the call whose session was in storage when
\* getSession started, or the call that ran during its await
C33_ConsistentSnapshot ==
    (gs.pc = "done" /\ gs.prev = "setSession" /\ gs.session # NoSession) =>
        \/ gs.session = SnapshotOf(gs.start)
        \/ /\ cb.kind = "setSession"
           /\ gs.session = SnapshotOf(SlotOf(cb.result, cb.t))

\* C34: when a setSession has completed during the await of a getSession,
\* the session it stored is still there when that getSession ends
C34_NewerSessionSurvives ==
    (gs.pc = "done" /\ gs.prev = "setSession"
        /\ cb.kind = "setSession" /\ cb.set = Resolved) =>
        ls.at = ToStr(cb.result.access_token)


\* C37: when OAuthManager.handleCallback has returned a destination carrying
\* `error`, localStorage holds what it held when provider.handleCallback
\* settled (nothing else runs during the call)
C37_FailedCallbackLeavesSession ==
    (/\ cb.kind = "handleCallback"
     /\ cb.pc = "done"
     /\ cb.settled = "resolved"
     /\ <<"error">> \in QueryKeys(cb.url))
        => ls = cb.before


\* s occurs among the entries of a trace
Traced(c, s) == \E i \in 1..Len(c.trace) : c.trace[i] = s

\* C38: a callback whose provider.handleCallback resolved without a
\* non-empty access_token never reaches provider.setSession and never ends in
\* a success destination, whichever of OAuthManager.handleCallback, Callback
\* and NativeCallback runs it
C38_NoSessionWithoutAccessToken ==
    (/\ cb.kind \in Callers
     /\ cb.hc.st = "resolved"
     /\ ~Truthy(cb.result.access_token))
        => /\ ~Traced(cb, "setSession")
           /\ cb.pc = "done" =>
                 \/ cb.view # Null
                 \/ cb.settled = "rejected"
                 \/ (cb.url # Undefined /\ <<"error">> \in QueryKeys(cb.url))


\* the stored expires_at is earlier than time t
ExpiredAt(store, t) == store.ea # NoItem /\ store.ea.n < t

\* a step in which ClientSideMockProvider.getSession runs where storage is usable
ClientGetSessionRan ==
    /\ provider = "client"
    /\ gs'.pc = "done"
    /\ now' = now
    /\ ~NoStorage(env) /\ ~StorageDenied(env)

\* C39 as stated: whenever the stored expires_at is earlier than the current
\* time, getSession returns null and leaves none of the three keys in storage
C39_AsStated ==
    [][(ClientGetSessionRan /\ ExpiredAt(ls, now)) =>
            (gs'.session = NoSession /\ ls' = EmptyStorage)]_vars

\* C39: ClientSideMockProvider.getSession never returns a session whose
\* stored expires_at is earlier than the current time; when an access token
\* is stored with such an expires_at it returns null and removes the three
\* keys; with nothing stored it returns null and stores nothing; an
\* unexpired stored token is returned
C39_NoExpiredSession ==
    [][ClientGetSessionRan =>
        /\ gs'.session # NoSession => ~ExpiredAt(ls, now)
        /\ (Truthy(ls.at) /\ ExpiredAt(ls, now)) =>
                (gs'.session = NoSession /\ ls' = EmptyStorage)
        /\ (Truthy(ls.at) /\ ~ExpiredAt(ls, now)) =>
                (gs'.session = SnapshotOf(ls) /\ ls' = ls)
        /\ ~Truthy(ls.at) => (gs'.session = NoSession /\ ls' = ls)]_vars

\* a session that expired as time passed was dropped by getSession
C39_Witness ==
    /\ provider = "client"
    /\ gs.pc = "done"
    /\ Truthy(gs.token)
    /\ gs.expiresAt # NoItem
    /\ gs.expiresAt.n > 0
    /\ gs.session = NoSession
    /\ ls = EmptyStorage


\* C35: in useOAuth, once signOut() has resolved and until a new session is
\* stored, the hook's session is null and isAuthenticated (!!session) is false
C35_SignedOutStaysSignedOut ==
    hook.signedOut => hook.session = NoSession

====
